---- MODULE Spec2Model ----
(***************************************************************************)
(* Model of PackageLoader.py: the background workers (PackageWorker,       *)
(* PackageOperationWorker), the ProgressDialog and the handlers of         *)
(* PackageListWidget that start them and receive their signals.            *)
(*                                                                         *)
(* Threads.  The interactive thread runs one handler at a time; a handler  *)
(* is one action.  Each QThread worker is a process with its own program   *)
(* counter.  A signal emitted by a worker is a queued connection: it is    *)
(* appended to `queue` and handled later, in emission order, by the        *)
(* interactive thread.  cancel_requested -> cancel is emitted and received *)
(* on the interactive thread, hence a direct call that writes the flag     *)
(* while the worker runs.                                                  *)
(*                                                                         *)
(* Package names are the numbers 1..MaxNames; their numeric order stands   *)
(* for the byte order of the strings.  A QMessageBox shown by a handler is *)
(* answered within the handler's action.                                   *)
(***************************************************************************)
EXTENDS Integers, Sequences, FiniteSets, TLC

\* ------------------------------------------------------------------ bounds
MaxNames == 2
MaxRuns == 2
MaxLoads == 2
MaxToggles == 2
MaxLines == 3

\* How many times the user searches or navigates.
MaxSearches == 2

\* The largest batch whose progress is followed.
MaxTotal == 3

Names == 1..MaxNames
Devices == {"devA", "devB"}
None == "None"

\* adb marks name 1 as part of the base image (pm list packages -s).
SystemNames == {1}

Operations == {"uninstall", "disable", "enable", "reset"}

\* The label of the final progress event, emit(100, "완료").
DoneLabel == 0
\* The label a new ProgressDialog shows, "준비 중...".
PreparingLabel == -1

\* What subprocess.run(cmd, ..., timeout=30) gives back for one item: an
\* exception (TimeoutExpired or any other), or a result with an exit code and
\* with or without the text "Failure" in its stdout.
CommandResults ==
    {[raised |-> TRUE, returncode |-> 0, failure_in_stdout |-> FALSE]} \cup
    {[raised |-> FALSE, returncode |-> rc, failure_in_stdout |-> m] :
        rc \in {0, 1}, m \in BOOLEAN}

\* ---------------------------------------------------------------- helpers
Range(s) == {s[k] : k \in 1..Len(s)}

Last(s) == s[Len(s)]

IsPrefix(s, t) == Len(s) <= Len(t) /\ \A k \in 1..Len(s) : s[k] = t[k]

\* The names of a set, as `pm list packages` prints them: the device lists
\* them in an order of its own, here descending.
ListOutput(S) ==
    LET G[k \in 0..MaxNames] ==
            IF k = 0 THEN <<>>
            ELSE IF k \in S THEN <<k>> \o G[k - 1] ELSE G[k - 1]
    IN  G[MaxNames]

\* list.sort(key=name): a stable insertion sort, ascending.
Insert(s, x) ==
    LET pos == Cardinality({k \in 1..Len(s) : s[k].name <= x.name})
    IN  SubSeq(s, 1, pos) \o <<x>> \o SubSeq(s, pos + 1, Len(s))

SortByName(s) ==
    LET F[k \in 0..Len(s)] == IF k = 0 THEN <<>> ELSE Insert(F[k - 1], s[k])
    IN  F[Len(s)]

\* PackageOperationWorker.run: progress = int((i / total_packages) * 100).
\* The float expression equals the integer quotient for every total below 50.
Progress(i, total) == (i * 100) \div total

\* ProgressDialog.update_progress: completed = int((progress / 100) * total).
Completed(progress, total) == (progress * total) \div 100

\* A mutant of IsFailed: the marker check applied to every operation.
IsFailedAnyOperation(operation, result) ==
    \/ result.raised
    \/ result.returncode # 0
    \/ result.failure_in_stdout

\* PackageOperationWorker.run: the item is appended to failed_packages when the
\* command raised, exited non-zero, or (uninstall only) printed "Failure".
IsFailed(operation, result) ==
    \/ result.raised
    \/ result.returncode # 0
    \/ (operation = "uninstall" /\ result.failure_in_stdout)

\* ------------------------------------------------------------------ state
VARIABLES
    current_device_id,  \* PackageListWidget.current_device_id
    packages,           \* PackageListWidget.packages (= filtered_packages)
    package_dict,       \* PackageListWidget.package_dict: name -> record
    package_table,      \* the rows of the table: name, checkbox, system colour
    worker,             \* PackageListWidget.worker: index into loaders, or 0
    operation_worker,   \* PackageListWidget.operation_worker: index, or 0
    progress_dialog,    \* PackageListWidget.progress_dialog: index, or 0
    progress_bar,       \* the load progress bar of the widget
    op_workers,         \* every PackageOperationWorker created so far
    dialogs,            \* the ProgressDialog of each of them
    loaders,            \* every PackageWorker created so far
    queue,              \* queued signals, not yet handled by the interactive thread
    installed,          \* the packages installed on each device
    last_warning,       \* the last failure message box shown
    aborted,            \* an exception left a slot and PyQt5 aborted the process
    is_batch_updating,  \* PackageListWidget.is_batch_updating
    batch_update,       \* the batch update the interactive thread is executing
    gui_commands,       \* the commands subprocess.run ran on the interactive thread
    checkbox_changed_calls, \* how often on_checkbox_changed has run
    search_edit,        \* the text of PackageListWidget.search_edit
    search_results,     \* PackageListWidget.search_results: rows, 1 is the first
    current_search_index, \* its current_search_index: 0 stands for -1
    active_pattern,     \* the pattern search_results was computed with
    search_calls,       \* how often find_next, find_previous, search_packages ran
    selected_rows,      \* the rows selected in package_table
    current_row,        \* package_table.currentRow(): 0 stands for -1
    scroll_value,       \* the value of the vertical scroll bar of package_table
    saved_scroll_position,    \* PackageListWidget.saved_scroll_position
    saved_selected_packages,  \* PackageListWidget.saved_selected_packages
    saved_current_row,  \* PackageListWidget.saved_current_row
    timers,             \* the QTimer.singleShot callbacks not yet run
    snapshot            \* whether a selection was saved, how often it was applied

vars == <<current_device_id, packages, package_dict, package_table, worker,
          operation_worker, progress_dialog, progress_bar, op_workers, dialogs,
          loaders, queue, installed, last_warning, aborted,
          is_batch_updating, batch_update, gui_commands, checkbox_changed_calls,
          search_edit, search_results, current_search_index, active_pattern,
          search_calls, selected_rows, current_row, scroll_value,
          saved_scroll_position, saved_selected_packages, saved_current_row,
          timers, snapshot>>

search_vars ==
    <<search_edit, search_results, current_search_index, active_pattern,
      search_calls>>

selection_vars == <<selected_rows, current_row, scroll_value>>

saved_vars ==
    <<saved_scroll_position, saved_selected_packages, saved_current_row,
      snapshot>>

view_vars == <<search_vars, selection_vars, saved_vars, timers>>

toggle_vars ==
    <<is_batch_updating, batch_update, gui_commands, checkbox_changed_calls>>

EmptyDict == [n \in {} |-> None]

NoWarning == [operation |-> None, failed_packages |-> <<>>]

\* The interactive thread is in no batch update.
NoBatch ==
    [pc |-> "idle", row_indices |-> <<>>, new_state |-> FALSE, k |-> 0,
     before |-> <<>>]

\* subprocess.run("adb devices") of load_devices, and
\* subprocess.run("adb -s ... shell pm enable <package>") of
\* install_or_enable_package.
\* What subprocess.run gives back to install_or_enable_package.
ToggleResults ==
    {[raised |-> TRUE, returncode |-> 0],
     [raised |-> FALSE, returncode |-> 0],
     [raised |-> FALSE, returncode |-> 1]}

ToggleSucceeds == {[raised |-> FALSE, returncode |-> 0]}

DevicesCommand ==
    [cmd |-> "devices", package |-> 0,
     result |-> [raised |-> FALSE, returncode |-> 0]]

EnableCommand(package_name, result) ==
    [cmd |-> "enable", package |-> package_name, result |-> result]

\* What search_edit may hold.  re.compile and pattern.search are the library's:
\* a text that compiles is known by the set of names pattern.search finds a
\* match in, a text that does not compile raises re.error, and a text that is
\* empty once stripped is refused before it is compiled.
EmptyText == [kind |-> "empty", matches |-> {}]

MalformedText == [kind |-> "malformed", matches |-> {}]

Pattern(S) == [kind |-> "valid", matches |-> S]

SearchTexts ==
    {EmptyText, MalformedText} \cup {Pattern(S) : S \in SUBSET Names}

NoSearchCalls == [find_next |-> 0, find_previous |-> 0, search_packages |-> 0]

\* saved_current_row is None when no row was current, and -1 before any
\* selection was saved.
NoFocus == 0

UnsetFocus == -1

NoSnapshot == [captured |-> FALSE, applied |-> 0]

\* PackageListWidget.__init__: no search, nothing selected, nothing saved.
InitView ==
    /\ search_edit = EmptyText
    /\ search_results = <<>>
    /\ current_search_index = 0
    /\ active_pattern = EmptyText
    /\ search_calls = NoSearchCalls
    /\ selected_rows = {}
    /\ current_row = 0
    /\ scroll_value = 0
    /\ saved_scroll_position = 0
    /\ saved_selected_packages = <<>>
    /\ saved_current_row = UnsetFocus
    /\ timers = {}
    /\ snapshot = NoSnapshot

\* The view once the first load was displayed, its restore_selected_items
\* timer has run and the user has selected `rows` with `current` the current
\* row: no search yet.
LoadedView(rows, current) ==
    /\ search_edit = EmptyText
    /\ search_results = <<>>
    /\ current_search_index = 0
    /\ active_pattern = EmptyText
    /\ search_calls = NoSearchCalls
    /\ selected_rows = rows
    /\ current_row = current
    /\ scroll_value = 0
    /\ timers = {}

\* Nothing was saved since __init__, whose values the restore_selected_items
\* timer of the first load has applied.
NothingSaved ==
    /\ saved_scroll_position = 0
    /\ saved_selected_packages = <<>>
    /\ saved_current_row = UnsetFocus
    /\ snapshot = [captured |-> FALSE, applied |-> 1]

\* What `operation` saved when it was confirmed with no row selected and no
\* current row: uninstall saves the scroll position only.
SavedByOperation(operation) ==
    IF operation = "uninstall"
    THEN NothingSaved
    ELSE /\ saved_scroll_position = 0
         /\ saved_selected_packages = <<>>
         /\ saved_current_row = NoFocus
         /\ snapshot = [captured |-> TRUE, applied |-> 0]

\* AndroidPackageManager.__init__ (load_devices has run), PackageListWidget.__init__
\* and a device with every package installed.
Init ==
    /\ current_device_id = None
    /\ packages = <<>>
    /\ package_dict = EmptyDict
    /\ package_table = <<>>
    /\ worker = 0
    /\ operation_worker = 0
    /\ progress_dialog = 0
    /\ progress_bar = [visible |-> FALSE, value |-> 0]
    /\ op_workers = <<>>
    /\ dialogs = <<>>
    /\ loaders = <<>>
    /\ queue = <<>>
    /\ installed = [d \in Devices |-> Names]
    /\ last_warning = NoWarning
    /\ aborted = FALSE
    /\ is_batch_updating = FALSE
    /\ batch_update = NoBatch
    /\ gui_commands = <<DevicesCommand>>
    /\ checkbox_changed_calls = 0
    /\ InitView

\* A modal ProgressDialog is executing: the main window takes no input.
DialogOpen == \E r \in 1..Len(dialogs) : dialogs[r].state = "open"

LoaderAlive(l) == loaders[l].pc # "done"

OpWorkerAlive(r) == op_workers[r].pc # "done"

\* ------------------------------------------- PackageOperationWorker (thread)
\* PackageOperationWorker.__init__.  attempted, results, emitted, broke and
\* dispatched_at_cancel record what the thread did, reload the load requested
\* when its completion was handled (0: none yet); the code does not read them.
NewOperationWorker(device_id, pkgs, operation) ==
    [device_id |-> device_id, packages |-> pkgs, operation |-> operation,
     is_cancelled |-> FALSE, pc |-> "loop", i |-> 0, failed_packages |-> <<>>,
     attempted |-> <<>>, results |-> <<>>, emitted |-> <<>>, broke |-> FALSE,
     dispatched_at_cancel |-> -1, reload |-> 0]

ProgressEvent(r, progress, current_package) ==
    [sig |-> "op_progress", run |-> r, progress |-> progress,
     current_package |-> current_package]

CompletedEvent(r, failed_packages) ==
    [sig |-> "operation_completed", run |-> r, failed_packages |-> failed_packages]

\* signal.emit(...) from a worker thread: one more queued call.
Emit(q, e) == Append(q, e)

\* A mutant of CancelSeen: the loop never looks at the flag.
CancelNeverSeen(w) == FALSE

\* A mutant of CancelSeen: the loop also stops after the first failure.
StopAfterFailure(w) == w.is_cancelled \/ w.failed_packages # <<>>

\* run, line 95: if self._is_cancelled.
CancelSeen(w) == w.is_cancelled

\* run, lines 94-96: the head of the loop; the flag is read here and nowhere else.
RunLoop(r) ==
    LET w == op_workers[r] IN
    /\ ~aborted
    /\ UNCHANGED toggle_vars
    /\ UNCHANGED view_vars
    /\ w.pc = "loop"
    /\ op_workers' = [op_workers EXCEPT ![r] =
          IF w.i = Len(w.packages) THEN [w EXCEPT !.pc = "final"]
          ELSE IF CancelSeen(w) THEN [w EXCEPT !.pc = "final", !.broke = TRUE]
          ELSE [w EXCEPT !.pc = "item"]]
    /\ UNCHANGED <<current_device_id, packages, package_dict, package_table,
                   worker, operation_worker, progress_dialog, progress_bar,
                   dialogs, loaders, queue, installed, last_warning, aborted>>

\* run, lines 98-112: the progress event of item i, then its command starts.
RunStartItem(r) ==
    LET w == op_workers[r]
        package == w.packages[w.i + 1]
        e == ProgressEvent(r, Progress(w.i, Len(w.packages)), package)
    IN
    /\ ~aborted
    /\ UNCHANGED toggle_vars
    /\ UNCHANGED view_vars
    /\ w.pc = "item"
    /\ queue' = Emit(queue, e)
    /\ op_workers' = [op_workers EXCEPT ![r] =
          [w EXCEPT !.pc = "command",
                    !.emitted = Append(@, e),
                    !.attempted = Append(@, [name |-> package,
                                             flag |-> w.is_cancelled])]]
    /\ UNCHANGED <<current_device_id, packages, package_dict, package_table,
                   worker, operation_worker, progress_dialog, progress_bar,
                   dialogs, loaders, installed, last_warning, aborted>>

\* run, lines 114-118: failed_packages after the command of `package`.
Classify(w, package, result) ==
    IF IsFailed(w.operation, result)
    THEN Append(w.failed_packages, package)
    ELSE w.failed_packages

\* What the command of an item does to the device: a successful uninstall
\* removes the package; the other commands leave the package list alone.
DeviceAfter(inst, w, package, result) ==
    IF /\ w.operation = "uninstall"
       /\ ~result.raised /\ result.returncode = 0 /\ ~result.failure_in_stdout
    THEN [inst EXCEPT ![w.device_id] = @ \ {package}]
    ELSE inst

\* A mutant of RunItemDone: an exception of the command leaves run, and the
\* thread ends without its completion event.
RunItemDoneRaises(r, result) ==
    LET w == op_workers[r]
        package == w.packages[w.i + 1]
    IN
    /\ ~aborted
    /\ UNCHANGED toggle_vars
    /\ UNCHANGED view_vars
    /\ w.pc = "command"
    /\ op_workers' = [op_workers EXCEPT ![r] =
          [w EXCEPT !.pc = IF result.raised THEN "done" ELSE "loop",
                    !.i = @ + 1,
                    !.results = Append(@, result),
                    !.failed_packages = Classify(w, package, result)]]
    /\ installed' = DeviceAfter(installed, w, package, result)
    /\ UNCHANGED <<current_device_id, packages, package_dict, package_table,
                   worker, operation_worker, progress_dialog, progress_bar,
                   dialogs, loaders, queue, last_warning, aborted>>

\* run, lines 112-118: the command returns or raises, the item is classified
\* and the loop goes on to the next item.
RunItemDone(r, result) ==
    LET w == op_workers[r]
        package == w.packages[w.i + 1]
    IN
    /\ ~aborted
    /\ UNCHANGED toggle_vars
    /\ UNCHANGED view_vars
    /\ w.pc = "command"
    /\ op_workers' = [op_workers EXCEPT ![r] =
          [w EXCEPT !.pc = "loop",
                    !.i = @ + 1,
                    !.results = Append(@, result),
                    !.failed_packages = Classify(w, package, result)]]
    /\ installed' = DeviceAfter(installed, w, package, result)
    /\ UNCHANGED <<current_device_id, packages, package_dict, package_table,
                   worker, operation_worker, progress_dialog, progress_bar,
                   dialogs, loaders, queue, last_warning, aborted>>

\* A mutant of RunFinish: a run that was cancelled skips the final progress
\* event.
RunFinishNoProgressOnCancel(r) ==
    LET w == op_workers[r]
        p == ProgressEvent(r, 100, DoneLabel)
        c == CompletedEvent(r, w.failed_packages)
        es == IF w.broke THEN <<c>> ELSE <<p, c>>
    IN
    /\ ~aborted
    /\ UNCHANGED toggle_vars
    /\ UNCHANGED view_vars
    /\ w.pc = "final"
    /\ queue' = queue \o es
    /\ op_workers' = [op_workers EXCEPT ![r] =
          [w EXCEPT !.pc = "done", !.emitted = @ \o es]]
    /\ UNCHANGED <<current_device_id, packages, package_dict, package_table,
                   worker, operation_worker, progress_dialog, progress_bar,
                   dialogs, loaders, installed, last_warning, aborted>>

\* A mutant of RunFinish: a run that was cancelled reports no failure.
RunFinishNoFailuresOnCancel(r) ==
    LET w == op_workers[r]
        p == ProgressEvent(r, 100, DoneLabel)
        c == CompletedEvent(r, IF w.broke THEN <<>> ELSE w.failed_packages)
    IN
    /\ ~aborted
    /\ UNCHANGED toggle_vars
    /\ UNCHANGED view_vars
    /\ w.pc = "final"
    /\ queue' = Emit(Emit(queue, p), c)
    /\ op_workers' = [op_workers EXCEPT ![r] =
          [w EXCEPT !.pc = "done", !.emitted = @ \o <<p, c>>]]
    /\ UNCHANGED <<current_device_id, packages, package_dict, package_table,
                   worker, operation_worker, progress_dialog, progress_bar,
                   dialogs, loaders, installed, last_warning, aborted>>

\* run, lines 120-122: the final progress event, then the completion event.
RunFinish(r) ==
    LET w == op_workers[r]
        p == ProgressEvent(r, 100, DoneLabel)
        c == CompletedEvent(r, w.failed_packages)
    IN
    /\ ~aborted
    /\ UNCHANGED toggle_vars
    /\ UNCHANGED view_vars
    /\ w.pc = "final"
    /\ queue' = Emit(Emit(queue, p), c)
    /\ op_workers' = [op_workers EXCEPT ![r] =
          [w EXCEPT !.pc = "done", !.emitted = @ \o <<p, c>>]]
    /\ UNCHANGED <<current_device_id, packages, package_dict, package_table,
                   worker, operation_worker, progress_dialog, progress_bar,
                   dialogs, loaders, installed, last_warning, aborted>>

OperationWorkerStep(results) ==
    \E r \in 1..Len(op_workers) :
        \/ RunLoop(r)
        \/ RunStartItem(r)
        \/ \E result \in results : RunItemDone(r, result)
        \/ RunFinish(r)

\* ------------------------------------------------------------ ProgressDialog
\* ProgressDialog.__init__ / init_ui, shown by exec_().
NewProgressDialog(operation, total_packages) ==
    [operation |-> operation, total_packages |-> total_packages,
     progress_bar |-> 0, current_package_label |-> PreparingLabel,
     completed |-> 0, cancel_button |-> "cancel", state |-> "open"]

\* A mutant of UpdateProgress: the final event leaves the count of completed
\* items where the last item event put it.
UpdateProgressKeepsCount(d, progress, current_package) ==
    [d EXCEPT !.progress_bar = progress,
              !.current_package_label = current_package,
              !.cancel_button = IF current_package = DoneLabel THEN "done" ELSE @,
              !.completed = IF current_package = DoneLabel THEN @
                            ELSE Completed(progress, d.total_packages)]

\* ProgressDialog.update_progress.
UpdateProgress(d, progress, current_package) ==
    [d EXCEPT !.progress_bar = progress,
              !.current_package_label = current_package,
              !.cancel_button = IF current_package = DoneLabel THEN "done" ELSE @,
              !.completed = Completed(progress, d.total_packages)]

\* The queued progress_updated signal of an operation worker reaches its dialog.
DeliverOperationProgress ==
    /\ ~aborted
    /\ batch_update.pc = "idle"
    /\ UNCHANGED toggle_vars
    /\ UNCHANGED view_vars
    /\ queue # <<>>
    /\ Head(queue).sig = "op_progress"
    /\ LET e == Head(queue) IN
       dialogs' = [dialogs EXCEPT ![e.run] =
                     UpdateProgress(@, e.progress, e.current_package)]
    /\ queue' = Tail(queue)
    /\ UNCHANGED <<current_device_id, packages, package_dict, package_table,
                   worker, operation_worker, progress_dialog, progress_bar,
                   op_workers, loaders, installed, last_warning, aborted>>

\* PackageOperationWorker.cancel, with the number of items dispatched when the
\* flag is first set.
Cancel(w) ==
    [w EXCEPT !.is_cancelled = TRUE,
              !.dispatched_at_cancel = IF w.is_cancelled THEN @ ELSE Len(w.attempted)]

\* ProgressDialog.on_cancel_clicked / closeEvent on a dialog that is not done,
\* answered Yes: cancel_requested reaches cancel() at once, the dialog closes.
CancelClicked(r) ==
    /\ ~aborted
    /\ batch_update.pc = "idle"
    /\ UNCHANGED toggle_vars
    /\ UNCHANGED view_vars
    /\ dialogs[r].state = "open"
    /\ dialogs[r].cancel_button # "done"
    /\ op_workers' = [op_workers EXCEPT ![r] = Cancel(@)]
    /\ dialogs' = [dialogs EXCEPT ![r].state = "rejected"]
    /\ UNCHANGED <<current_device_id, packages, package_dict, package_table,
                   worker, operation_worker, progress_dialog, progress_bar,
                   loaders, queue, installed, last_warning, aborted>>

\* ProgressDialog.on_cancel_clicked / closeEvent once the button reads done.
DoneClicked(r) ==
    /\ ~aborted
    /\ batch_update.pc = "idle"
    /\ UNCHANGED toggle_vars
    /\ UNCHANGED view_vars
    /\ dialogs[r].state = "open"
    /\ dialogs[r].cancel_button = "done"
    /\ dialogs' = [dialogs EXCEPT ![r].state = "accepted"]
    /\ UNCHANGED <<current_device_id, packages, package_dict, package_table,
                   worker, operation_worker, progress_dialog, progress_bar,
                   op_workers, loaders, queue, installed, last_warning, aborted>>

DialogStep == \E r \in 1..Len(dialogs) : CancelClicked(r) \/ DoneClicked(r)

\* ---------------------------------------------------- PackageWorker (thread)
\* PackageWorker.__init__.  `before` keeps what the widget held when the load
\* was requested; the code does not read it.
NewPackageWorker(device_id, before) ==
    [device_id |-> device_id, pc |-> "start", package_lines |-> <<>>,
     system_result |-> None, system_packages |-> {},
     emitted |-> <<>>, before |-> before]

LoadProgressEvent(l, value) ==
    [sig |-> "load_progress", loader |-> l, value |-> value]

PackageLoadedEvent(l, pkgs) ==
    [sig |-> "package_loaded", loader |-> l, packages |-> pkgs]

ErrorEvent(l, kind) ==
    [sig |-> "error_occurred", loader |-> l, kind |-> kind]

\* What a list command gives back: output with exit code 0, a non-zero exit
\* code, or an exception (TimeoutExpired or any other).
ListResults == {"ok", "nonzero", "raised"}

\* run, lines 29-32: progress 30, then `pm list packages` starts.
LoaderStart(l) ==
    LET w == loaders[l]
        e == LoadProgressEvent(l, 30)
    IN
    /\ ~aborted
    /\ UNCHANGED toggle_vars
    /\ UNCHANGED view_vars
    /\ w.pc = "start"
    /\ queue' = Emit(queue, e)
    /\ loaders' = [loaders EXCEPT ![l] =
          [w EXCEPT !.pc = "list", !.emitted = Append(@, e)]]
    /\ UNCHANGED <<current_device_id, packages, package_dict, package_table,
                   worker, operation_worker, progress_dialog, progress_bar,
                   op_workers, dialogs, installed, last_warning, aborted>>

\* A mutant of LoaderListDone: after a non-zero exit the error is emitted and
\* the run goes on with the system list.
LoaderListDoneGoesOn(l) ==
    LET w == loaders[l] IN
    /\ ~aborted
    /\ UNCHANGED toggle_vars
    /\ UNCHANGED view_vars
    /\ w.pc = "list"
    /\ \E res \in ListResults :
          LET es == CASE res = "ok" -> <<LoadProgressEvent(l, 60)>>
                      [] res = "nonzero" -> <<ErrorEvent(l, "CommandError")>>
                      [] res = "raised" -> <<ErrorEvent(l, "Exception")>>
          IN
          /\ queue' = Emit(queue, es[1])
          /\ loaders' = [loaders EXCEPT ![l] =
                [w EXCEPT !.pc = IF res = "raised" THEN "done" ELSE "system",
                          !.package_lines =
                              IF res = "ok" THEN ListOutput(installed[w.device_id])
                              ELSE @,
                          !.emitted = @ \o es]]
    /\ UNCHANGED <<current_device_id, packages, package_dict, package_table,
                   worker, operation_worker, progress_dialog, progress_bar,
                   op_workers, dialogs, installed, last_warning, aborted>>

\* run, lines 32-45 and 71-74: `pm list packages` returns or raises; on
\* success progress 60, then `pm list packages -s` starts.
LoaderListDone(l) ==
    LET w == loaders[l] IN
    /\ ~aborted
    /\ UNCHANGED toggle_vars
    /\ UNCHANGED view_vars
    /\ w.pc = "list"
    /\ \E res \in ListResults :
          LET es == CASE res = "ok" -> <<LoadProgressEvent(l, 60)>>
                      [] res = "nonzero" -> <<ErrorEvent(l, "CommandError")>>
                      [] res = "raised" -> <<ErrorEvent(l, "Exception")>>
          IN
          /\ queue' = Emit(queue, es[1])
          /\ loaders' = [loaders EXCEPT ![l] =
                [w EXCEPT !.pc = IF res = "ok" THEN "system" ELSE "done",
                          !.package_lines =
                              IF res = "ok" THEN ListOutput(installed[w.device_id])
                              ELSE @,
                          !.emitted = @ \o es]]
    /\ UNCHANGED <<current_device_id, packages, package_dict, package_table,
                   worker, operation_worker, progress_dialog, progress_bar,
                   op_workers, dialogs, installed, last_warning, aborted>>

\* A line of stdout that does not start with "package:".
OtherLine == 0

\* A mutant of BuildPackages: a record is marked system by its name alone,
\* whatever `pm list packages -s` printed.
BuildPackagesByName(package_lines, system_packages) ==
    SortByName([k \in 1..Len(package_lines) |->
                  [name |-> package_lines[k],
                   is_system |-> package_lines[k] \in SystemNames,
                   selected |-> FALSE]])

\* A mutant of BuildPackages: the records are created selected.
BuildPackagesSelected(package_lines, system_packages) ==
    LET F[k \in 0..Len(package_lines)] ==
            IF k = 0 THEN <<>>
            ELSE IF package_lines[k] = OtherLine THEN F[k - 1]
                 ELSE Append(F[k - 1],
                          [name |-> package_lines[k],
                           is_system |-> package_lines[k] \in system_packages,
                           selected |-> TRUE])
    IN  SortByName(F[Len(package_lines)])

\* run, lines 56-66: one record per line that starts with "package:", in the
\* order of the lines, then sorted by name.
BuildPackages(package_lines, system_packages) ==
    LET F[k \in 0..Len(package_lines)] ==
            IF k = 0 THEN <<>>
            ELSE IF package_lines[k] = OtherLine THEN F[k - 1]
                 ELSE Append(F[k - 1],
                          [name |-> package_lines[k],
                           is_system |-> package_lines[k] \in system_packages,
                           selected |-> FALSE])
    IN  SortByName(F[Len(package_lines)])

\* run, lines 45-74: `pm list packages -s` returns or raises.  An exception
\* reaches the except clauses of run; a non-zero exit leaves the system set
\* empty.  Then progress 80, the records, progress 100 and package_loaded.
LoaderSystemDone(l) ==
    LET w == loaders[l] IN
    /\ ~aborted
    /\ UNCHANGED toggle_vars
    /\ UNCHANGED view_vars
    /\ w.pc = "system"
    /\ \E res \in ListResults :
          LET system_packages ==
                  IF res = "ok" THEN SystemNames \cap installed[w.device_id]
                  ELSE {}
              es == IF res = "raised"
                    THEN <<ErrorEvent(l, "Exception")>>
                    ELSE <<LoadProgressEvent(l, 80), LoadProgressEvent(l, 100),
                           PackageLoadedEvent(l,
                               BuildPackages(w.package_lines, system_packages))>>
          IN
          /\ queue' = IF res = "raised" THEN Emit(queue, es[1])
                      ELSE Emit(Emit(Emit(queue, es[1]), es[2]), es[3])
          /\ loaders' = [loaders EXCEPT ![l] =
                [w EXCEPT !.pc = "done", !.system_result = res,
                          !.system_packages = system_packages,
                          !.emitted = @ \o es]]
    /\ UNCHANGED <<current_device_id, packages, package_dict, package_table,
                   worker, operation_worker, progress_dialog, progress_bar,
                   op_workers, dialogs, installed, last_warning, aborted>>

PackageWorkerStep ==
    \E l \in 1..Len(loaders) :
        LoaderStart(l) \/ LoaderListDone(l) \/ LoaderSystemDone(l)

\* ------------------------------------------------ the view of package_table
\* The sequences that list every element of S once: the orders in which
\* Python may iterate over a set.
Orderings(S) ==
    {p \in [1..Cardinality(S) -> S] :
        \A i, j \in 1..Cardinality(S) : i # j => p[i] # p[j]}

\* The largest value of the vertical scroll bar of a table of n rows, for a
\* viewport of one row that scrolls by rows.
ScrollMaximum(n) == IF n > 0 THEN n - 1 ELSE 0

\* QScrollBar.setValue: the value is kept within the range of the bar.
SetValue(value, n) ==
    IF value > ScrollMaximum(n) THEN ScrollMaximum(n) ELSE value

\* package_to_row of restore_selected_items: the last row of a name wins.
PackageToRow(name) ==
    CHOOSE row \in 1..Len(package_table) :
        /\ package_table[row].name = name
        /\ \A q \in row + 1..Len(package_table) : package_table[q].name # name

RowNames == {package_table[row].name : row \in 1..Len(package_table)}

\* The part of clear_packages that the view shows: setRowCount(0) leaves no
\* row to be selected, current or scrolled to, and the search is reset.
ClearPackagesView ==
    /\ selected_rows' = {}
    /\ current_row' = 0
    /\ scroll_value' = 0
    /\ search_results' = <<>>
    /\ current_search_index' = 0
    /\ search_edit' = EmptyText
    /\ active_pattern' = EmptyText
    /\ UNCHANGED search_calls

\* save_scroll_position.
SaveScrollPosition == saved_scroll_position' = scroll_value

\* save_selected_items: the names of the selected rows, in the order a set of
\* row numbers is iterated, and the name of the current row or None.
SaveSelectedItems ==
    /\ \E p \in Orderings(selected_rows) :
          saved_selected_packages' =
              [k \in 1..Len(p) |-> package_table[p[k]].name]
    /\ saved_current_row' =
          IF current_row >= 1 THEN package_table[current_row].name ELSE NoFocus
    /\ snapshot' = [captured |-> TRUE, applied |-> 0]

\* ---------------------------------------------------- search and navigation
\* What the handlers of the search leave alone.
widget_vars ==
    <<current_device_id, packages, package_dict, worker, operation_worker,
      progress_dialog, progress_bar, op_workers, dialogs, loaders, queue,
      installed, last_warning, aborted>>

SearchCalls ==
    search_calls.find_next + search_calls.find_previous
        + search_calls.search_packages

Smallest(S) == CHOOSE x \in S : \A y \in S : x <= y

Largest(S) == CHOOSE x \in S : \A y \in S : x >= y

\* list.index(x): the first position of x.
IndexOf(s, x) ==
    CHOOSE k \in 1..Len(s) : s[k] = x /\ \A j \in 1..k - 1 : s[j] # x

\* QTableWidget.selectRow(row), with no key held, in the ExtendedSelection
\* mode of the table: the row becomes the current row and the only selected
\* one, and the view scrolls to it (scrollToItem says so again); a row the
\* table does not have is ignored.
SelectRow(row) ==
    IF row \in 1..Len(package_table)
    THEN /\ selected_rows' = {row}
         /\ current_row' = row
         /\ scroll_value' = row - 1
    ELSE UNCHANGED selection_vars

\* A mutant of MatchingRows: the positions are those of the inventory
\* sequence, not of the displayed rows.
MatchingRowsOfInventory(text) ==
    LET F[k \in 0..Len(packages)] ==
            IF k = 0 THEN <<>>
            ELSE IF packages[k].name \in text.matches
                 THEN Append(F[k - 1], k)
                 ELSE F[k - 1]
    IN  F[Len(packages)]

\* The rows search_packages collects: those whose name the pattern finds a
\* match in, in the order of range(rowCount).
MatchingRows(text) ==
    LET F[k \in 0..Len(package_table)] ==
            IF k = 0 THEN <<>>
            ELSE IF package_table[k].name \in text.matches
                 THEN Append(F[k - 1], k)
                 ELSE F[k - 1]
    IN  F[Len(package_table)]

\* A mutant of FindNextIn: navigation follows current_search_index and
\* wraps after the last match.
FindNextInByIndex(results, index) ==
    IF results = <<>>
    THEN current_search_index' = index /\ UNCHANGED selection_vars
    ELSE /\ current_search_index' = (index % Len(results)) + 1
         /\ SelectRow(results[(index % Len(results)) + 1])

\* A mutant of FindNextIn: the first match is selected once no match lies
\* below the current row.
FindNextInWraps(results, index) ==
    LET next_rows == {r \in Range(results) : r > current_row} IN
    IF results = <<>>
    THEN current_search_index' = index /\ UNCHANGED selection_vars
    ELSE IF next_rows # {}
    THEN /\ current_search_index' = IndexOf(results, Smallest(next_rows))
         /\ SelectRow(Smallest(next_rows))
    ELSE /\ current_search_index' = 1
         /\ SelectRow(results[1])

\* PackageListWidget.find_next with self.search_results = results and
\* self.current_search_index = index.
FindNextIn(results, index) ==
    LET next_rows == {r \in Range(results) : r > current_row} IN
    IF results = <<>>
    THEN current_search_index' = index /\ UNCHANGED selection_vars
    ELSE IF next_rows # {}
    THEN /\ current_search_index' = IndexOf(results, Smallest(next_rows))
         /\ SelectRow(Smallest(next_rows))
    ELSE IF current_row >= Largest(Range(results))
    THEN current_search_index' = index /\ UNCHANGED selection_vars
    ELSE /\ current_search_index' = 1
         /\ SelectRow(results[1])

\* A mutant of FindPreviousIn: navigation follows current_search_index and
\* wraps before the first match.
FindPreviousInByIndex(results, index) ==
    IF results = <<>>
    THEN current_search_index' = index /\ UNCHANGED selection_vars
    ELSE /\ current_search_index' = IF index <= 1 THEN Len(results)
                                                  ELSE index - 1
         /\ SelectRow(results[IF index <= 1 THEN Len(results) ELSE index - 1])

\* A mutant of FindPreviousIn: the last match is selected once no match lies
\* above the current row.
FindPreviousInWraps(results, index) ==
    LET prev_rows == {r \in Range(results) : r < current_row} IN
    IF results = <<>>
    THEN current_search_index' = index /\ UNCHANGED selection_vars
    ELSE IF prev_rows # {}
    THEN /\ current_search_index' = IndexOf(results, Largest(prev_rows))
         /\ SelectRow(Largest(prev_rows))
    ELSE /\ current_search_index' = Len(results)
         /\ SelectRow(Last(results))

\* PackageListWidget.find_previous with self.search_results = results and
\* self.current_search_index = index.
FindPreviousIn(results, index) ==
    LET prev_rows == {r \in Range(results) : r < current_row} IN
    IF results = <<>>
    THEN current_search_index' = index /\ UNCHANGED selection_vars
    ELSE IF prev_rows # {}
    THEN /\ current_search_index' = IndexOf(results, Largest(prev_rows))
         /\ SelectRow(Largest(prev_rows))
    ELSE IF current_row <= Smallest(Range(results))
    THEN current_search_index' = index /\ UNCHANGED selection_vars
    ELSE /\ current_search_index' = Len(results)
         /\ SelectRow(Last(results))

\* The rows are selected by the user: clicks, with Ctrl or Shift or without,
\* leave any set of rows selected and the row clicked last current.
SelectRows(rows, current) ==
    /\ ~aborted
    /\ batch_update.pc = "idle"
    /\ ~DialogOpen
    /\ current \in 1..Len(package_table)
    /\ rows \subseteq 1..Len(package_table)
    /\ selected_rows' = rows
    /\ current_row' = current
    /\ UNCHANGED <<scroll_value, search_vars, saved_vars, timers>>
    /\ UNCHANGED <<widget_vars, package_table, toggle_vars>>

\* A mutant of SearchPackages: the previous results are dropped before the
\* text is looked at.
SearchPackagesDropsResults(text) ==
    /\ ~aborted
    /\ batch_update.pc = "idle"
    /\ ~DialogOpen
    /\ SearchCalls < MaxSearches
    /\ search_calls' = [search_calls EXCEPT !.search_packages = @ + 1]
    /\ search_edit' = text
    /\ LET results == MatchingRows(text) IN
       /\ search_results' = results
       /\ package_table' =
             [row \in 1..Len(package_table) |->
                 [package_table[row] EXCEPT
                     !.highlighted = row \in Range(results)]]
       /\ active_pattern' = text
       /\ FindNextIn(results, 0)
    /\ UNCHANGED <<saved_vars, timers>>
    /\ UNCHANGED <<widget_vars, toggle_vars>>

\* PackageListWidget.search_packages, the text of search_edit being `text`: a
\* text that is empty or does not compile is answered with a message box;
\* otherwise the matching rows are collected and highlighted, and find_next
\* runs from current_search_index -1.
SearchPackages(text) ==
    /\ ~aborted
    /\ batch_update.pc = "idle"
    /\ ~DialogOpen
    /\ SearchCalls < MaxSearches
    /\ search_calls' = [search_calls EXCEPT !.search_packages = @ + 1]
    /\ search_edit' = text
    /\ IF text.kind # "valid"
       THEN UNCHANGED <<package_table, search_results, current_search_index,
                        active_pattern, selection_vars>>
       ELSE LET results == MatchingRows(text) IN
            /\ search_results' = results
            /\ package_table' =
                  [row \in 1..Len(package_table) |->
                      [package_table[row] EXCEPT
                          !.highlighted = row \in Range(results)]]
            /\ active_pattern' = text
            /\ FindNextIn(results, 0)
    /\ UNCHANGED <<saved_vars, timers>>
    /\ UNCHANGED <<widget_vars, toggle_vars>>

\* PackageListWidget.reset_search.
ResetSearch ==
    /\ ~aborted
    /\ batch_update.pc = "idle"
    /\ ~DialogOpen
    /\ search_edit' = EmptyText
    /\ package_table' =
          [row \in 1..Len(package_table) |->
              [package_table[row] EXCEPT !.highlighted = FALSE]]
    /\ search_results' = <<>>
    /\ current_search_index' = 0
    /\ active_pattern' = EmptyText
    /\ UNCHANGED <<search_calls, selection_vars, saved_vars, timers>>
    /\ UNCHANGED <<widget_vars, toggle_vars>>

\* F4 with the table focused: find_next.
FindNext ==
    /\ ~aborted
    /\ batch_update.pc = "idle"
    /\ ~DialogOpen
    /\ search_results # <<>>
    /\ SearchCalls < MaxSearches
    /\ search_calls' = [search_calls EXCEPT !.find_next = @ + 1]
    /\ FindNextIn(search_results, current_search_index)
    /\ UNCHANGED <<search_edit, search_results, active_pattern, saved_vars,
                   timers>>
    /\ UNCHANGED <<widget_vars, package_table, toggle_vars>>

\* F3 with the table focused: find_previous.
FindPrevious ==
    /\ ~aborted
    /\ batch_update.pc = "idle"
    /\ ~DialogOpen
    /\ search_results # <<>>
    /\ SearchCalls < MaxSearches
    /\ search_calls' = [search_calls EXCEPT !.find_previous = @ + 1]
    /\ FindPreviousIn(search_results, current_search_index)
    /\ UNCHANGED <<search_edit, search_results, active_pattern, saved_vars,
                   timers>>
    /\ UNCHANGED <<widget_vars, package_table, toggle_vars>>

\* --------------------------------------------------- the QTimer callbacks
\* The selection after selectRow(row) or setCurrentCell(row, 2): the row is
\* current, the only selected one, and scrolled to.
RowSelected(row) == [rows |-> {row}, current |-> row, scroll |-> row - 1]

\* The selection restore_selected_items leaves: clearSelection, selectRow for
\* every saved name the table has, in the order they were saved, and
\* setCurrentCell for the saved current name if the table has it.
RestoredSelection ==
    LET F[k \in 0..Len(saved_selected_packages)] ==
            IF k = 0
            THEN [rows |-> {}, current |-> current_row, scroll |-> scroll_value]
            ELSE IF saved_selected_packages[k] \in RowNames
                 THEN RowSelected(PackageToRow(saved_selected_packages[k]))
                 ELSE F[k - 1]
        selected == F[Len(saved_selected_packages)]
    IN  IF saved_current_row # NoFocus /\ saved_current_row \in RowNames
        THEN RowSelected(PackageToRow(saved_current_row))
        ELSE selected

\* PackageListWidget.restore_selected_items.
RestoreSelectedItems ==
    IF saved_selected_packages = <<>> /\ saved_current_row = NoFocus
    THEN UNCHANGED <<selection_vars, snapshot>>
    ELSE /\ selected_rows' = RestoredSelection.rows
         /\ current_row' = RestoredSelection.current
         /\ scroll_value' = RestoredSelection.scroll
         /\ snapshot' = [snapshot EXCEPT !.applied = @ + 1]

\* PackageListWidget.restore_scroll_position.
RestoreScrollPosition ==
    /\ scroll_value' = SetValue(saved_scroll_position, Len(package_table))
    /\ UNCHANGED <<selected_rows, current_row, snapshot>>

\* A QTimer.singleShot callback runs on the interactive thread, also while a
\* modal dialog executes.
TimerFires(t) ==
    /\ ~aborted
    /\ batch_update.pc = "idle"
    /\ t \in timers
    /\ timers' = timers \ {t}
    /\ IF t.fn = "restore_selected_items"
       THEN RestoreSelectedItems
       ELSE RestoreScrollPosition
    /\ UNCHANGED <<search_vars, saved_scroll_position,
                   saved_selected_packages, saved_current_row>>
    /\ UNCHANGED <<widget_vars, package_table, toggle_vars>>

TimerStep == \E t \in timers : TimerFires(t)

\* ------------------------------------------- PackageListWidget (interactive)
\* A mutant of ClearPackages: the list is kept until the new one arrives.
ClearPackagesKeepsList ==
    /\ package_table' = package_table
    /\ packages' = packages
    /\ package_dict' = package_dict

\* PackageListWidget.clear_packages.
ClearPackages ==
    /\ package_table' = <<>>
    /\ packages' = <<>>
    /\ package_dict' = EmptyDict

\* PackageListWidget.load_packages: the list is cleared and a new
\* PackageWorker replaces self.worker, whatever the previous one is doing.
LoadPackages(device_id) ==
    /\ current_device_id' = device_id
    /\ ClearPackages
    /\ ClearPackagesView
    /\ progress_bar' = [visible |-> TRUE, value |-> 0]
    /\ worker' = Len(loaders) + 1
    /\ loaders' = Append(loaders,
          NewPackageWorker(device_id,
              [packages |-> packages, package_dict |-> package_dict,
               package_table |-> package_table]))

\* AndroidPackageManager.on_device_selected: a device is double-clicked.
OnDeviceSelected(device_id) ==
    /\ ~aborted
    /\ batch_update.pc = "idle"
    /\ UNCHANGED toggle_vars
    /\ UNCHANGED <<saved_vars, timers>>
    /\ ~DialogOpen
    /\ Len(loaders) < MaxLoads
    /\ LoadPackages(device_id)
    /\ UNCHANGED <<operation_worker, progress_dialog, op_workers, dialogs,
                   queue, installed, last_warning, aborted>>

\* QProgressBar.setValue, the slot of PackageWorker.progress_updated.
DeliverLoadProgress ==
    /\ ~aborted
    /\ batch_update.pc = "idle"
    /\ UNCHANGED toggle_vars
    /\ UNCHANGED view_vars
    /\ queue # <<>>
    /\ Head(queue).sig = "load_progress"
    /\ progress_bar' = [progress_bar EXCEPT !.value = Head(queue).value]
    /\ queue' = Tail(queue)
    /\ UNCHANGED <<current_device_id, packages, package_dict, package_table,
                   worker, operation_worker, progress_dialog, op_workers,
                   dialogs, loaders, installed, last_warning, aborted>>

\* PackageListWidget.display_packages: one row per record, the checkbox set
\* from the record's selected flag, the background white.
DisplayPackages(pkgs) ==
    [k \in 1..Len(pkgs) |->
        [name |-> pkgs[k].name, checked |-> pkgs[k].selected,
         is_system |-> pkgs[k].is_system, highlighted |-> FALSE]]

\* package_dict = {pkg['name']: pkg for pkg in packages}: the last record of
\* a name wins.
BuildDict(pkgs) ==
    [n \in {pkgs[k].name : k \in 1..Len(pkgs)} |->
        pkgs[CHOOSE k \in 1..Len(pkgs) :
                /\ pkgs[k].name = n
                /\ \A j \in k + 1..Len(pkgs) : pkgs[j].name # n]]

\* The record packages[k] is the object package_dict holds for its name: the
\* last record of that name.
IsSharedRecord(k) ==
    \A j \in k + 1..Len(packages) : packages[j].name # packages[k].name

\* PackageListWidget.on_packages_loaded.  setRowCount keeps the selection and
\* the current row of the rows that stay; restore_selected_items is left to a
\* timer, whose id tells which load it follows (the code does not read it).
OnPackagesLoaded ==
    /\ ~aborted
    /\ batch_update.pc = "idle"
    /\ UNCHANGED toggle_vars
    /\ queue # <<>>
    /\ Head(queue).sig = "package_loaded"
    /\ LET pkgs == Head(queue).packages IN
       /\ packages' = pkgs
       /\ package_dict' = BuildDict(pkgs)
       /\ package_table' = DisplayPackages(pkgs)
       /\ selected_rows' = selected_rows \cap (1..Len(pkgs))
       /\ current_row' = IF current_row > Len(pkgs) THEN Len(pkgs)
                                                   ELSE current_row
       /\ scroll_value' = SetValue(scroll_value, Len(pkgs))
    /\ timers' = timers \cup {[fn |-> "restore_selected_items",
                                id |-> Head(queue).loader]}
    /\ UNCHANGED <<search_vars, saved_vars>>
    /\ progress_bar' = [progress_bar EXCEPT !.visible = FALSE]
    /\ queue' = Tail(queue)
    /\ UNCHANGED <<current_device_id, worker, operation_worker, progress_dialog,
                   op_workers, dialogs, loaders, installed, last_warning, aborted>>

\* PackageListWidget.on_error: a message box, the progress bar hidden.
OnError ==
    /\ ~aborted
    /\ batch_update.pc = "idle"
    /\ UNCHANGED toggle_vars
    /\ UNCHANGED view_vars
    /\ queue # <<>>
    /\ Head(queue).sig = "error_occurred"
    /\ progress_bar' = [progress_bar EXCEPT !.visible = FALSE]
    /\ queue' = Tail(queue)
    /\ UNCHANGED <<current_device_id, packages, package_dict, package_table,
                   worker, operation_worker, progress_dialog, op_workers,
                   dialogs, loaders, installed, last_warning, aborted>>

\* PackageListWidget.install_or_enable_package: `pm enable` runs on the
\* interactive thread; its result is dropped and an exception is printed.
InstallOrEnablePackage(package_name, is_system, result) ==
    IF current_device_id = None
    THEN gui_commands
    ELSE Append(gui_commands, EnableCommand(package_name, result))

\* A mutant of OnCheckboxChanged: the record is set only when the command
\* succeeded.
OnCheckboxChangedChecksResult(row, state, result) ==
    LET name == package_table[row].name
        ok == ~state \/ (~result.raised /\ result.returncode = 0)
    IN
    /\ checkbox_changed_calls' = checkbox_changed_calls + 1
    /\ IF ~is_batch_updating /\ name \in DOMAIN package_dict
       THEN /\ package_dict' =
                  [package_dict EXCEPT ![name].selected = IF ok THEN state ELSE @]
            /\ packages' = packages
            /\ gui_commands' =
                  IF state
                  THEN InstallOrEnablePackage(name, package_dict[name].is_system,
                                              result)
                  ELSE gui_commands
       ELSE UNCHANGED <<package_dict, packages, gui_commands>>

\* PackageListWidget.on_checkbox_changed(state), sent by the checkbox of `row`:
\* nothing during a batch update; otherwise the record of the row's name takes
\* the new state (the record is shared by packages and package_dict) and, for
\* Qt.Checked, install_or_enable_package runs.
OnCheckboxChanged(row, state, result) ==
    LET name == package_table[row].name IN
    /\ checkbox_changed_calls' = checkbox_changed_calls + 1
    /\ IF ~is_batch_updating /\ name \in DOMAIN package_dict
       THEN /\ package_dict' = [package_dict EXCEPT ![name].selected = state]
            /\ packages' = [k \in 1..Len(packages) |->
                  IF packages[k].name = name /\ IsSharedRecord(k)
                  THEN [packages[k] EXCEPT !.selected = state]
                  ELSE packages[k]]
            /\ gui_commands' =
                  IF state
                  THEN InstallOrEnablePackage(name, package_dict[name].is_system,
                                              result)
                  ELSE gui_commands
       ELSE UNCHANGED <<package_dict, packages, gui_commands>>

\* A click on the checkbox of a row: the checkbox flips and emits stateChanged,
\* which calls on_checkbox_changed before the click returns.
CheckboxClicked(row, results) ==
    /\ ~aborted
    /\ UNCHANGED view_vars
    /\ batch_update.pc = "idle"
    /\ ~DialogOpen
    /\ checkbox_changed_calls < MaxToggles
    /\ package_table' =
          [package_table EXCEPT ![row].checked = ~package_table[row].checked]
    /\ \E result \in results :
          OnCheckboxChanged(row, ~package_table[row].checked, result)
    /\ UNCHANGED <<current_device_id, worker, operation_worker, progress_dialog,
                   progress_bar, op_workers, dialogs, loaders, queue, installed,
                   last_warning, aborted, is_batch_updating, batch_update>>

\* A mutant of GetSelectedPackages: the names of the checked rows, ascending.
GetSelectedPackagesAscending ==
    LET S == {package_table[r].name :
                 r \in {q \in 1..Len(package_table) : package_table[q].checked}}
    IN  [k \in 1..Cardinality(S) |->
            CHOOSE n \in S : Cardinality({m \in S : m < n}) = k - 1]

\* PackageListWidget.get_selected_packages: the names of the checked rows, in
\* row order.
GetSelectedPackages ==
    LET F[k \in 0..Len(package_table)] ==
            IF k = 0 THEN <<>>
            ELSE IF package_table[k].checked
                 THEN Append(F[k - 1], package_table[k].name)
                 ELSE F[k - 1]
    IN  F[Len(package_table)]

\* get_selected_rows: the selected rows, ascending.
SortedRows(rows) ==
    [k \in 1..Cardinality(rows) |->
        CHOOSE r \in rows : Cardinality({q \in rows : q < r}) = k - 1]

\* The value a batch update sets: True for Check On, False for Check Off; the
\* Toggle button and the Space key take the opposite of the checkbox of the
\* first selected row.
BatchButtons == {"check_on", "check_off", "toggle", "space"}

NewState(button, rows) ==
    CASE button = "check_on" -> TRUE
      [] button = "check_off" -> FALSE
      [] OTHER -> ~package_table[SortedRows(rows)[1]].checked

\* check_on_selected, check_off_selected, toggle_selected or the Space key of
\* the table, with `rows` what get_selected_rows returns, up to
\* start_batch_update.
BatchStart(button, rows) ==
    /\ ~aborted
    /\ UNCHANGED view_vars
    /\ batch_update.pc = "idle"
    /\ ~DialogOpen
    /\ rows = selected_rows
    /\ rows # {}
    /\ is_batch_updating' = TRUE
    /\ batch_update' = [pc |-> "rows", row_indices |-> SortedRows(rows),
                        new_state |-> NewState(button, rows), k |-> 0,
                        before |-> GetSelectedPackages]
    /\ UNCHANGED <<current_device_id, packages, package_dict, package_table,
                   worker, operation_worker, progress_dialog, progress_bar,
                   op_workers, dialogs, loaders, queue, installed, last_warning,
                   aborted, gui_commands, checkbox_changed_calls>>

\* A mutant of BatchSetRow: the checkbox is set without blockSignals, so it
\* emits stateChanged when its state changes.
BatchSetRowEmits ==
    LET row == batch_update.row_indices[batch_update.k + 1] IN
    /\ ~aborted
    /\ UNCHANGED view_vars
    /\ batch_update.pc = "rows"
    /\ batch_update.k < Len(batch_update.row_indices)
    /\ package_table' =
          [package_table EXCEPT ![row].checked = batch_update.new_state]
    /\ batch_update' = [batch_update EXCEPT !.k = @ + 1]
    /\ IF package_table[row].checked # batch_update.new_state
       THEN OnCheckboxChanged(row, batch_update.new_state,
                              [raised |-> FALSE, returncode |-> 0])
       ELSE UNCHANGED <<packages, package_dict, gui_commands,
                        checkbox_changed_calls>>
    /\ UNCHANGED <<current_device_id, worker, operation_worker, progress_dialog,
                   progress_bar, op_workers, dialogs, loaders, queue, installed,
                   last_warning, aborted, is_batch_updating>>

\* A mutant of BatchSetRow: the interactive thread returns to its event loop
\* after each row.
BatchSetRowYields ==
    LET row == batch_update.row_indices[batch_update.k + 1] IN
    /\ ~aborted
    /\ UNCHANGED view_vars
    /\ batch_update.pc \in {"rows", "idle"}
    /\ batch_update.k < Len(batch_update.row_indices)
    /\ row <= Len(package_table)
    /\ package_table' =
          [package_table EXCEPT ![row].checked = batch_update.new_state]
    /\ batch_update' =
          [batch_update EXCEPT !.k = @ + 1,
              !.pc = IF batch_update.k + 1 = Len(batch_update.row_indices)
                     THEN "rows" ELSE "idle"]
    /\ UNCHANGED <<current_device_id, packages, package_dict, worker,
                   operation_worker, progress_dialog, progress_bar, op_workers,
                   dialogs, loaders, queue, installed, last_warning, aborted,
                   is_batch_updating, gui_commands, checkbox_changed_calls>>

\* One turn of the loop of batch_update_selected_checkboxes (lines 1220-1227)
\* or of CheckBoxTableWidget.batch_update_checkboxes (lines 825-833): the
\* checkbox of the next row is set with its signals blocked.
BatchSetRow ==
    LET row == batch_update.row_indices[batch_update.k + 1] IN
    /\ ~aborted
    /\ UNCHANGED view_vars
    /\ batch_update.pc = "rows"
    /\ batch_update.k < Len(batch_update.row_indices)
    /\ package_table' =
          [package_table EXCEPT ![row].checked = batch_update.new_state]
    /\ batch_update' = [batch_update EXCEPT !.k = @ + 1]
    /\ UNCHANGED <<current_device_id, packages, package_dict, worker,
                   operation_worker, progress_dialog, progress_bar, op_workers,
                   dialogs, loaders, queue, installed, last_warning, aborted,
                   is_batch_updating, gui_commands, checkbox_changed_calls>>

\* The names of the rows of a batch update.
BatchNames ==
    {package_table[batch_update.row_indices[k]].name :
        k \in 1..Len(batch_update.row_indices)}

\* A mutant of BatchEnd: the checkboxes of the rows outside the batch are
\* cleared.
BatchEndClearsOthers ==
    /\ ~aborted
    /\ UNCHANGED view_vars
    /\ batch_update.pc = "rows"
    /\ batch_update.k = Len(batch_update.row_indices)
    /\ package_table' =
          [r \in 1..Len(package_table) |->
              IF r \in Range(batch_update.row_indices) THEN package_table[r]
              ELSE [package_table[r] EXCEPT !.checked = FALSE]]
    /\ package_dict' = package_dict
    /\ packages' = packages
    /\ is_batch_updating' = FALSE
    /\ batch_update' = NoBatch
    /\ UNCHANGED <<current_device_id, worker, operation_worker, progress_dialog,
                   progress_bar, op_workers, dialogs, loaders, queue, installed,
                   last_warning, aborted, gui_commands, checkbox_changed_calls>>

\* PackageListWidget.end_batch_update: the record of each row's name takes the
\* new state, then is_batch_updating is reset.
BatchEnd ==
    /\ ~aborted
    /\ UNCHANGED view_vars
    /\ batch_update.pc = "rows"
    /\ batch_update.k = Len(batch_update.row_indices)
    /\ package_dict' =
          [n \in DOMAIN package_dict |->
              IF n \in BatchNames
              THEN [package_dict[n] EXCEPT !.selected = batch_update.new_state]
              ELSE package_dict[n]]
    /\ packages' =
          [k \in 1..Len(packages) |->
              IF /\ packages[k].name \in BatchNames
                 /\ packages[k].name \in DOMAIN package_dict
                 /\ IsSharedRecord(k)
              THEN [packages[k] EXCEPT !.selected = batch_update.new_state]
              ELSE packages[k]]
    /\ is_batch_updating' = FALSE
    /\ batch_update' = NoBatch
    /\ UNCHANGED <<current_device_id, package_table, worker, operation_worker,
                   progress_dialog, progress_bar, op_workers, dialogs, loaders,
                   queue, installed, last_warning, aborted, gui_commands,
                   checkbox_changed_calls>>

\* items.sort(key=package_name, reverse=reverse_order): stable in both
\* directions.
InsertRow(s, x, reverse_order) ==
    LET pos == Cardinality({k \in 1..Len(s) :
                   IF reverse_order THEN s[k].name >= x.name
                   ELSE s[k].name <= x.name})
    IN  SubSeq(s, 1, pos) \o <<x>> \o SubSeq(s, pos + 1, Len(s))

SortRows(s, reverse_order) ==
    LET F[k \in 0..Len(s)] ==
            IF k = 0 THEN <<>> ELSE InsertRow(F[k - 1], s[k], reverse_order)
    IN  F[Len(s)]

SortOrders == {"AscendingOrder", "DescendingOrder"}

\* CheckBoxTableWidget.sort(column, order): only column 2, the package name,
\* sorts; each row keeps its checkbox and its colour, and its background is
\* set to white.
Sort(column, order) ==
    /\ ~aborted
    /\ UNCHANGED view_vars
    /\ batch_update.pc = "idle"
    /\ ~DialogOpen
    /\ package_table' =
          IF column = 2
          THEN LET rows == SortRows(package_table, order = "DescendingOrder")
               IN  [k \in 1..Len(rows) |->
                       [rows[k] EXCEPT !.highlighted = FALSE]]
          ELSE package_table
    /\ UNCHANGED <<current_device_id, packages, package_dict, worker,
                   operation_worker, progress_dialog, progress_bar, op_workers,
                   dialogs, loaders, queue, installed, last_warning, aborted,
                   is_batch_updating, batch_update, gui_commands,
                   checkbox_changed_calls>>

\* PackageListWidget.perform_package_operation: a dialog and a worker replace
\* self.progress_dialog and self.operation_worker; the worker starts and the
\* dialog executes.
PerformPackageOperation(pkgs, operation) ==
    /\ dialogs' = Append(dialogs, NewProgressDialog(operation, Len(pkgs)))
    /\ progress_dialog' = Len(dialogs) + 1
    /\ op_workers' = Append(op_workers,
          NewOperationWorker(current_device_id, pkgs, operation))
    /\ operation_worker' = Len(op_workers) + 1

\* uninstall_selected, disable_selected, enable_selected, reset_selected,
\* confirmed with Yes: the scroll position is saved, and the selection unless
\* the operation is uninstall.
OperationSelected(operation) ==
    /\ ~aborted
    /\ batch_update.pc = "idle"
    /\ UNCHANGED toggle_vars
    /\ ~DialogOpen
    /\ Len(op_workers) < MaxRuns
    /\ GetSelectedPackages # <<>>
    /\ current_device_id # None
    /\ SaveScrollPosition
    /\ IF operation = "uninstall"
       THEN UNCHANGED <<saved_selected_packages, saved_current_row, snapshot>>
       ELSE SaveSelectedItems
    /\ PerformPackageOperation(GetSelectedPackages, operation)
    /\ UNCHANGED <<search_vars, selection_vars, timers>>
    /\ UNCHANGED <<current_device_id, packages, package_dict, package_table,
                   worker, progress_bar, loaders, queue, installed,
                   last_warning, aborted>>

\* PackageListWidget.on_operation_completed.  self.operation_worker.operation
\* is read for the failure message (line 1685) and after load_packages (line
\* 1693); with self.operation_worker None the read raises AttributeError and
\* the slot ends there.  What an exception that leaves a slot does to the
\* process depends on the PyQt5 build: it is aborted (qFatal), or the
\* traceback is printed and the event loop goes on.  restore_scroll_position
\* is left to a timer, whose id tells which run it follows.
OnOperationCompleted ==
    /\ ~aborted
    /\ batch_update.pc = "idle"
    /\ UNCHANGED toggle_vars
    /\ queue # <<>>
    /\ Head(queue).sig = "operation_completed"
    /\ queue' = Tail(queue)
    /\ LET failed_packages == Head(queue).failed_packages IN
       IF failed_packages # <<>> /\ operation_worker = 0
       THEN /\ aborted' \in BOOLEAN
            /\ UNCHANGED <<current_device_id, packages, package_dict,
                           package_table, worker, operation_worker,
                           progress_dialog, progress_bar, loaders, last_warning,
                           op_workers, view_vars>>
       ELSE /\ last_warning' =
                  IF failed_packages # <<>>
                  THEN [operation |-> op_workers[operation_worker].operation,
                        failed_packages |-> failed_packages]
                  ELSE last_warning
            /\ LoadPackages(current_device_id)
            /\ op_workers' = [op_workers EXCEPT
                                  ![Head(queue).run].reload = Len(loaders) + 1]
            /\ UNCHANGED saved_vars
            /\ IF operation_worker = 0
               THEN /\ aborted' \in BOOLEAN
                    /\ UNCHANGED <<operation_worker, progress_dialog, timers>>
               ELSE /\ timers' = timers \cup
                                     {[fn |-> "restore_scroll_position",
                                       id |-> Head(queue).run]}
                    /\ operation_worker' = 0
                    /\ progress_dialog' = 0
                    /\ UNCHANGED aborted
    /\ UNCHANGED <<dialogs, installed>>

InteractiveStep ==
    \/ \E d \in Devices : OnDeviceSelected(d)
    \/ \E row \in 1..Len(package_table) : CheckboxClicked(row, ToggleResults)
    \/ \E button \in BatchButtons, rows \in SUBSET (1..Len(package_table)) :
          BatchStart(button, rows)
    \/ BatchSetRow
    \/ BatchEnd
    \/ \E column \in {0, 2}, order \in SortOrders : Sort(column, order)
    \/ \E operation \in Operations : OperationSelected(operation)
    \/ DialogStep
    \/ DeliverLoadProgress
    \/ OnPackagesLoaded
    \/ OnError
    \/ DeliverOperationProgress
    \/ OnOperationCompleted
    \/ \E text \in SearchTexts : SearchPackages(text)
    \/ FindNext
    \/ FindPrevious
    \/ ResetSearch
    \/ \E rows \in SUBSET (1..Len(package_table)),
          current \in 1..Len(package_table) : SelectRows(rows, current)
    \/ TimerStep

\* ----------------------------------------------------------- specifications
\* The session: the commands of a batch operation succeed or exit non-zero.
SessionResults ==
    {res \in CommandResults : ~res.raised /\ ~res.failure_in_stdout}

\* The whole program, from the start of the application.
Next == InteractiveStep \/ PackageWorkerStep \/ OperationWorkerStep(SessionResults)

Spec == Init /\ [][Next]_vars

\* The list of device d has been loaded, the rows of the names in S have been
\* checked one by one, and a batch operation on them has just been confirmed:
\* the state perform_package_operation leaves when its dialog starts executing.
LoadedPackages(S) ==
    LET base == BuildPackages(ListOutput(Names), SystemNames) IN
    [k \in 1..Len(base) |-> [base[k] EXCEPT !.selected = base[k].name \in S]]

FinishedLoad(d) ==
    LET base == BuildPackages(ListOutput(Names), SystemNames) IN
    [device_id |-> d, pc |-> "done", package_lines |-> ListOutput(Names),
     system_result |-> "ok", system_packages |-> SystemNames,
     emitted |-> <<LoadProgressEvent(1, 30), LoadProgressEvent(1, 60),
                   LoadProgressEvent(1, 80), LoadProgressEvent(1, 100),
                   PackageLoadedEvent(1, base)>>,
     before |-> [packages |-> <<>>, package_dict |-> EmptyDict,
                 package_table |-> <<>>]]

InitRun ==
    \E d \in Devices, S \in (SUBSET Names) \ {{}}, operation \in Operations :
        LET pkgs == LoadedPackages(S)
            targets == [k \in 1..Cardinality(S) |->
                          CHOOSE n \in S : Cardinality({m \in S : m < n}) = k - 1]
        IN
        /\ current_device_id = d
        /\ packages = pkgs
        /\ package_dict = BuildDict(pkgs)
        /\ package_table = DisplayPackages(pkgs)
        /\ worker = 1
        /\ operation_worker = 1
        /\ progress_dialog = 1
        /\ progress_bar = [visible |-> FALSE, value |-> 100]
        /\ op_workers = <<NewOperationWorker(d, targets, operation)>>
        /\ dialogs = <<NewProgressDialog(operation, Len(targets))>>
        /\ loaders = <<FinishedLoad(d)>>
        /\ queue = <<>>
        /\ installed = [x \in Devices |-> Names]
        /\ last_warning = NoWarning
        /\ aborted = FALSE
        /\ is_batch_updating = FALSE
        /\ batch_update = NoBatch
        /\ gui_commands = <<DevicesCommand>> \o
                            [k \in 1..Len(targets) |->
                                EnableCommand(targets[k],
                                    [raised |-> FALSE, returncode |-> 0])]
        /\ checkbox_changed_calls = Len(targets)
        /\ LoadedView({}, 0)
        /\ SavedByOperation(operation)

\* One batch operation, from its start to the list reloaded after it.
RunNext ==
    \/ OperationWorkerStep(CommandResults)
    \/ DialogStep
    \/ DeliverOperationProgress
    \/ OnOperationCompleted
    \/ PackageWorkerStep
    \/ DeliverLoadProgress
    \/ OnPackagesLoaded
    \/ OnError

SpecRun == InitRun /\ [][RunNext]_vars

\* The worker thread is scheduled as long as it has a step to take; every
\* command returns or is ended by its timeout.
FairSpecRun == SpecRun /\ WF_vars(OperationWorkerStep(CommandResults))

\* Batch operations started one after the other from the same list, the
\* second one while the cancelled first one is still running its command.
OverlapNext ==
    \/ OperationWorkerStep(SessionResults)
    \/ \E operation \in Operations : OperationSelected(operation)
    \/ DialogStep
    \/ DeliverOperationProgress
    \/ OnOperationCompleted

SpecOverlap == InitRun /\ [][OverlapNext]_vars

\* Loads only: devices are selected, lists arrive or fail.
LoadsNext ==
    \/ \E d \in Devices : OnDeviceSelected(d)
    \/ PackageWorkerStep
    \/ DeliverLoadProgress
    \/ OnPackagesLoaded
    \/ OnError

SpecLoads == Init /\ [][LoadsNext]_vars

\* What `pm list packages` can print: any lines, a name more than once, lines
\* without the prefix.
ListOutputs ==
    UNION {[1..n -> Names \cup {OtherLine}] : n \in 0..MaxLines}

\* A load of device d whose list command has printed `lines` and whose
\* `pm list packages -s` is running; S is what the device has installed.
InitInventory ==
    \E d \in Devices, lines \in ListOutputs, S \in SUBSET Names :
        LET before == [packages |-> <<>>, package_dict |-> EmptyDict,
                       package_table |-> <<>>]
            es == <<LoadProgressEvent(1, 30), LoadProgressEvent(1, 60)>>
        IN
        /\ current_device_id = d
        /\ packages = <<>>
        /\ package_dict = EmptyDict
        /\ package_table = <<>>
        /\ worker = 1
        /\ operation_worker = 0
        /\ progress_dialog = 0
        /\ progress_bar = [visible |-> TRUE, value |-> 0]
        /\ op_workers = <<>>
        /\ dialogs = <<>>
        /\ loaders = <<[NewPackageWorker(d, before) EXCEPT
                            !.pc = "system", !.package_lines = lines,
                            !.emitted = es]>>
        /\ queue = es
        /\ installed = [x \in Devices |-> S]
        /\ last_warning = NoWarning
        /\ aborted = FALSE
        /\ is_batch_updating = FALSE
        /\ batch_update = NoBatch
        /\ gui_commands = <<DevicesCommand>>
        /\ checkbox_changed_calls = 0
        /\ InitView

InventoryNext ==
    \/ \E l \in 1..Len(loaders) : LoaderSystemDone(l)
    \/ DeliverLoadProgress
    \/ OnPackagesLoaded
    \/ OnError

SpecInventory == InitInventory /\ [][InventoryNext]_vars

\* The list of device d has just been loaded and displayed; nothing is checked,
\* and the user has selected some of its rows.
InitSelect ==
    \E d \in Devices :
        LET pkgs == LoadedPackages({}) IN
        /\ current_device_id = d
        /\ packages = pkgs
        /\ package_dict = BuildDict(pkgs)
        /\ package_table = DisplayPackages(pkgs)
        /\ worker = 1
        /\ operation_worker = 0
        /\ progress_dialog = 0
        /\ progress_bar = [visible |-> FALSE, value |-> 100]
        /\ op_workers = <<>>
        /\ dialogs = <<>>
        /\ loaders = <<FinishedLoad(d)>>
        /\ queue = <<>>
        /\ installed = [x \in Devices |-> Names]
        /\ last_warning = NoWarning
        /\ aborted = FALSE
        /\ is_batch_updating = FALSE
        /\ batch_update = NoBatch
        /\ gui_commands = <<DevicesCommand>>
        /\ checkbox_changed_calls = 0
        /\ \E rows \in SUBSET (1..Len(pkgs)) : LoadedView(rows, 0)
        /\ NothingSaved

\* The selection: single toggles, batch updates, sorting and the start of a
\* batch operation on the checked rows.
SelectNext ==
    \/ \E row \in 1..Len(package_table) : CheckboxClicked(row, ToggleResults)
    \/ \E button \in BatchButtons, rows \in SUBSET (1..Len(package_table)) :
          BatchStart(button, rows)
    \/ BatchSetRow
    \/ BatchEnd
    \/ \E column \in {0, 2}, order \in SortOrders : Sort(column, order)
    \/ \E operation \in Operations : OperationSelected(operation)

SpecSelect == InitSelect /\ [][SelectNext]_vars

\* The list of device d is displayed while a second load of it, requested
\* before the first one had finished, is still to run: the state after two
\* double-clicks on the device list and the first load's delivery.
InitObserved ==
    \E d \in Devices :
        LET pkgs == LoadedPackages({})
            before == [packages |-> <<>>, package_dict |-> EmptyDict,
                       package_table |-> <<>>]
        IN
        /\ current_device_id = d
        /\ packages = pkgs
        /\ package_dict = BuildDict(pkgs)
        /\ package_table = DisplayPackages(pkgs)
        /\ worker = 2
        /\ operation_worker = 0
        /\ progress_dialog = 0
        /\ progress_bar = [visible |-> FALSE, value |-> 100]
        /\ op_workers = <<>>
        /\ dialogs = <<>>
        /\ loaders = <<FinishedLoad(d), NewPackageWorker(d, before)>>
        /\ queue = <<>>
        /\ installed = [x \in Devices |-> Names]
        /\ last_warning = NoWarning
        /\ aborted = FALSE
        /\ is_batch_updating = FALSE
        /\ batch_update = NoBatch
        /\ gui_commands = <<DevicesCommand>>
        /\ checkbox_changed_calls = 0
        /\ \E rows \in SUBSET (1..Len(pkgs)) : LoadedView(rows, 0)
        /\ NothingSaved

\* Batch updates and the handlers that could observe them: the signals of the
\* running load, single toggles (whose command succeeds), the read of the
\* checked rows.
ObservedNext ==
    \/ \E button \in BatchButtons, rows \in SUBSET (1..Len(package_table)) :
          BatchStart(button, rows)
    \/ BatchSetRow
    \/ BatchEnd
    \/ \E row \in 1..Len(package_table) : CheckboxClicked(row, ToggleSucceeds)
    \/ \E operation \in Operations : OperationSelected(operation)
    \/ PackageWorkerStep
    \/ DeliverLoadProgress
    \/ OnPackagesLoaded
    \/ OnError

SpecObserved == InitObserved /\ [][ObservedNext]_vars

\* The search over a displayed list: searches, navigation, the reset, the
\* selection of rows and sorting.
SearchNext ==
    \/ \E text \in SearchTexts : SearchPackages(text)
    \/ FindNext
    \/ FindPrevious
    \/ ResetSearch
    \/ \E rows \in SUBSET (1..Len(package_table)),
          current \in 1..Len(package_table) : SelectRows(rows, current)
    \/ \E column \in {0, 2}, order \in SortOrders : Sort(column, order)

SpecSearch == InitSelect /\ [][SearchNext]_vars

\* The list of device d is displayed with the rows of S checked, `rows`
\* selected and `current` the current row; nothing was saved yet.
InitViewed ==
    \E d \in Devices, S \in (SUBSET Names) \ {{}} :
        LET pkgs == LoadedPackages(S) IN
        /\ current_device_id = d
        /\ packages = pkgs
        /\ package_dict = BuildDict(pkgs)
        /\ package_table = DisplayPackages(pkgs)
        /\ worker = 1
        /\ operation_worker = 0
        /\ progress_dialog = 0
        /\ progress_bar = [visible |-> FALSE, value |-> 100]
        /\ op_workers = <<>>
        /\ dialogs = <<>>
        /\ loaders = <<FinishedLoad(d)>>
        /\ queue = <<>>
        /\ installed = [x \in Devices |-> Names]
        /\ last_warning = NoWarning
        /\ aborted = FALSE
        /\ is_batch_updating = FALSE
        /\ batch_update = NoBatch
        /\ gui_commands = <<DevicesCommand>> \o
                            [k \in 1..Len(GetSelectedPackages) |->
                                EnableCommand(GetSelectedPackages[k],
                                    [raised |-> FALSE, returncode |-> 0])]
        /\ checkbox_changed_calls = Cardinality(S)
        /\ \E rows \in SUBSET (1..Len(pkgs)), current \in 0..Len(pkgs) :
              /\ current = 0 => rows = {}
              /\ LoadedView(rows, current)
        /\ NothingSaved

\* The commands of a batch operation succeed.
Succeeds ==
    {res \in CommandResults :
        ~res.raised /\ res.returncode = 0 /\ ~res.failure_in_stdout}

\* No thread runs, no signal is queued and no timer is pending.
Settled ==
    /\ queue = <<>>
    /\ timers = {}
    /\ \A l \in 1..Len(loaders) : ~LoaderAlive(l)
    /\ \A r \in 1..Len(op_workers) : ~OpWorkerAlive(r)

\* Batch operations that run to their end, the reloads that follow them and
\* the timers that restore the view.  The user acts on a settled view only:
\* an operation is confirmed, its dialog is closed and a row is checked once
\* everything requested before has been displayed.
ViewNext ==
    \/ Settled /\ \E operation \in Operations : OperationSelected(operation)
    \/ OperationWorkerStep(Succeeds)
    \/ Settled /\ \E r \in 1..Len(dialogs) : DoneClicked(r)
    \/ DeliverOperationProgress
    \/ OnOperationCompleted
    \/ PackageWorkerStep
    \/ DeliverLoadProgress
    \/ OnPackagesLoaded
    \/ OnError
    \/ Settled /\ \E row \in 1..Len(package_table) :
                      CheckboxClicked(row, ToggleSucceeds)
    \/ TimerStep

SpecView == InitViewed /\ [][ViewNext]_vars

\* A batch operation on all n rows of a list of n names has been confirmed.
InitProgress ==
    \E d \in Devices, n \in 1..MaxTotal, operation \in Operations :
        LET pkgs == [k \in 1..n |->
                        [name |-> k, is_system |-> k \in SystemNames,
                         selected |-> TRUE]]
            loaded == [k \in 1..n |-> [pkgs[k] EXCEPT !.selected = FALSE]]
            targets == [k \in 1..n |-> k]
        IN
        /\ current_device_id = d
        /\ packages = pkgs
        /\ package_dict = BuildDict(pkgs)
        /\ package_table = DisplayPackages(pkgs)
        /\ worker = 1
        /\ operation_worker = 1
        /\ progress_dialog = 1
        /\ progress_bar = [visible |-> FALSE, value |-> 100]
        /\ op_workers = <<NewOperationWorker(d, targets, operation)>>
        /\ dialogs = <<NewProgressDialog(operation, n)>>
        /\ loaders = <<[FinishedLoad(d) EXCEPT
                            !.package_lines = ListOutput(1..n),
                            !.system_packages = SystemNames \cap (1..n),
                            !.emitted[5] = PackageLoadedEvent(1, loaded)]>>
        /\ queue = <<>>
        /\ installed = [x \in Devices |-> 1..n]
        /\ last_warning = NoWarning
        /\ aborted = FALSE
        /\ is_batch_updating = FALSE
        /\ batch_update = NoBatch
        /\ gui_commands = <<DevicesCommand>> \o
                            [k \in 1..n |->
                                EnableCommand(k,
                                    [raised |-> FALSE, returncode |-> 0])]
        /\ checkbox_changed_calls = n
        /\ LoadedView({}, 0)
        /\ SavedByOperation(operation)

\* The run of the worker and the delivery of its progress to the dialog.
ProgressNext ==
    \/ OperationWorkerStep(Succeeds)
    \/ DeliverOperationProgress

SpecProgress == InitProgress /\ [][ProgressNext]_vars

\* A load that may have printed a name more than once is delivered and
\* displayed; then rows are selected (the topmost one being the current row),
\* single checkboxes are clicked and batch updates are run on the selected
\* rows.
LoadedSelectNext ==
    \/ InventoryNext
    \/ \E rows \in (SUBSET (1..Len(package_table))) \ {{}} :
          SelectRows(rows, Smallest(rows))
    \/ \E row \in 1..Len(package_table) : CheckboxClicked(row, ToggleSucceeds)
    \/ \E button \in BatchButtons, rows \in SUBSET (1..Len(package_table)) :
          BatchStart(button, rows)
    \/ BatchSetRow
    \/ BatchEnd

SpecLoadedSelect == InitInventory /\ [][LoadedSelectNext]_vars

\* ------------------------------------------------------------------- claims
Runs == 1..Len(op_workers)

AttemptedNames(w) == [k \in 1..Len(w.attempted) |-> w.attempted[k].name]

\* The finished items of a run, in the order they ran, whose result satisfies
\* Bad.
FinishedWhere(w, Bad(_)) ==
    LET F[k \in 0..Len(w.results)] ==
            IF k = 0 THEN <<>>
            ELSE IF Bad(w.results[k])
                 THEN Append(F[k - 1], w.attempted[k].name)
                 ELSE F[k - 1]
    IN  F[Len(w.results)]

\* The items whose command raised, exited non-zero, or (uninstall) printed
\* the failure marker.
FailedByOutcome(w) ==
    LET Bad(res) == \/ res.raised
                    \/ res.returncode # 0
                    \/ (w.operation = "uninstall" /\ res.failure_in_stdout)
    IN  FinishedWhere(w, Bad)

\* The items whose command exited non-zero, or (uninstall) printed the failure
\* marker with exit code 0.
FailedByExitCodeOrMarker(w) ==
    LET Bad(res) == /\ ~res.raised
                    /\ \/ res.returncode # 0
                       \/ (w.operation = "uninstall" /\ res.failure_in_stdout)
    IN  FinishedWhere(w, Bad)

\* The queue holds no progress event of run r any more.
ProgressDelivered(r) ==
    \A k \in 1..Len(queue) :
        ~(queue[k].sig = "op_progress" /\ queue[k].run = r)

\* C1: in a run that is never cancelled every target is attempted exactly
\* once, in input order and one at a time (the items started so far are
\* always a prefix of the targets, with at most the last one still running),
\* and a failed item does not keep the later ones from being attempted.
C1_AllAttemptedInOrder ==
    \A r \in Runs :
        LET w == op_workers[r] IN
        /\ IsPrefix(AttemptedNames(w), w.packages)
        /\ Len(w.attempted) = w.i + (IF w.pc = "command" THEN 1 ELSE 0)
        /\ Len(w.results) = w.i
        /\ (w.pc = "done" /\ ~w.is_cancelled) => AttemptedNames(w) = w.packages

C1_Witness ==
    \E r \in Runs :
        LET w == op_workers[r] IN
        /\ w.pc = "done" /\ ~w.is_cancelled
        /\ Len(w.packages) >= 2
        /\ w.failed_packages # <<>> /\ w.failed_packages[1] = w.packages[1]
        /\ AttemptedNames(w) = w.packages

\* C2 as stated: the failed list reported by a finished run holds exactly the
\* attempted targets whose command exited non-zero or (uninstall) printed the
\* marker with exit code 0.
C2_FailedIsNonZeroOrMarker ==
    \A r \in Runs :
        LET w == op_workers[r] IN
        w.pc = "done" =>
            Last(w.emitted).failed_packages = FailedByExitCodeOrMarker(w)

\* C2 as amended: the failed list of a run, and the list its completion event
\* carries, holds exactly the attempted targets whose command exited non-zero,
\* raised (timeout or any other exception) or, for uninstall only, printed the
\* marker; each once, in input order; a marker with exit code 0 is no failure
\* for enable, disable and reset.
C2_FailedIsEveryFailure ==
    \A r \in Runs :
        LET w == op_workers[r] IN
        /\ w.failed_packages = FailedByOutcome(w)
        /\ w.pc = "done" =>
              /\ Last(w.emitted).sig = "operation_completed"
              /\ Last(w.emitted).failed_packages = FailedByOutcome(w)

C2_Witness ==
    \E r \in Runs :
        LET w == op_workers[r] IN
        /\ w.pc = "done" /\ w.operation = "enable"
        /\ \E k \in 1..Len(w.results) :
              w.results[k].failure_in_stdout /\ w.results[k].returncode = 0
        /\ \E k \in 1..Len(w.results) : w.results[k].raised
        /\ Len(w.failed_packages) = 1

\* C3 as stated: no item is started while the cancellation flag is set.
C3_NoItemStartedAfterCancel ==
    \A r \in Runs :
        \A k \in 1..Len(op_workers[r].attempted) : ~op_workers[r].attempted[k].flag

\* C3 as amended: once the flag is set, the only item that can still be
\* started is the one whose check of the flag had already passed; no item
\* after it is started, and every item that was started runs to completion
\* and is classified like any other.
C3_OnlyTheCheckedItemStarts ==
    \A r \in Runs :
        LET w == op_workers[r] IN
        /\ \A k \in 1..Len(w.attempted) :
              w.attempted[k].flag =>
                  k = Len(w.attempted) /\ k = w.dispatched_at_cancel + 1
        /\ w.is_cancelled => Len(w.attempted) <= w.dispatched_at_cancel + 1
        /\ w.pc = "done" =>
              /\ Len(w.results) = Len(w.attempted)
              /\ w.failed_packages = FailedByOutcome(w)

C3_Witness ==
    \E r \in Runs :
        LET w == op_workers[r] IN
        /\ w.pc = "done" /\ w.broke
        /\ w.dispatched_at_cancel = 1 /\ Len(w.attempted) = 1
        /\ w.failed_packages = <<w.packages[1]>>

\* C4: a run emits no error event, has emitted exactly one completion event
\* once its thread has ended and none before, and its thread does end,
\* whatever the results of its commands are.
C4_AlwaysCompletes ==
    /\ [](\A r \in Runs :
            LET w == op_workers[r]
                completions == {k \in 1..Len(w.emitted) :
                                   w.emitted[k].sig = "operation_completed"}
            IN
            /\ \A k \in 1..Len(w.emitted) :
                  w.emitted[k].sig \in {"op_progress", "operation_completed"}
            /\ Cardinality(completions) = (IF w.pc = "done" THEN 1 ELSE 0))
    /\ <>(\A r \in Runs : op_workers[r].pc = "done")

C4_Witness ==
    \E r \in Runs :
        LET w == op_workers[r] IN
        /\ w.pc = "done"
        /\ \E k \in 1..Len(w.results) : w.results[k].raised
        /\ \E k \in 1..Len(w.results) : w.results[k].returncode # 0
        /\ Last(w.emitted).sig = "operation_completed"

\* C5: a run that has ended, normally or by cancellation, has emitted exactly
\* one progress event carrying 100 or the done marker; it carries both, comes
\* after every item's progress event and right before the completion event.
\* A run that has not ended has emitted none.
C5_OneFinalProgress ==
    \A r \in Runs :
        LET w == op_workers[r]
            e == w.emitted
            finals == {k \in 1..Len(e) :
                          /\ e[k].sig = "op_progress"
                          /\ (e[k].progress = 100 \/ e[k].current_package = DoneLabel)}
        IN
        IF w.pc = "done"
        THEN /\ Len(e) = Len(w.attempted) + 2
             /\ finals = {Len(e) - 1}
             /\ e[Len(e) - 1].progress = 100
             /\ e[Len(e) - 1].current_package = DoneLabel
             /\ e[Len(e)].sig = "operation_completed"
             /\ \A k \in 1..Len(e) - 2 :
                   e[k].sig = "op_progress" /\ e[k].current_package = w.packages[k]
        ELSE finals = {}

C5_Witness ==
    \E r \in Runs :
        LET w == op_workers[r] IN
        /\ w.pc = "done" /\ w.broke
        /\ Len(w.attempted) >= 1
        /\ ProgressDelivered(r)
        /\ dialogs[r].cancel_button = "done"

C7_FractionReflectsK ==
    \A r \in Runs :
        LET w == op_workers[r]
            n == Len(w.packages)
            k == w.dispatched_at_cancel
        IN
        (w.pc = "done" /\ k >= 0 /\ k < n) =>
            /\ Len(w.attempted) = k
            /\ Completed(w.emitted[Len(w.emitted) - 1].progress, n) = k

\* C7 as amended: cancellation requested after k of n items were dispatched
\* (k < n): at most item k+1 is still attempted (when its check of the flag
\* had passed), items k+2..n never are, and the run ends with the final
\* progress event of 100, after which the dialog shows n of n completed.
C7_CancelledRunReportsAll ==
    \A r \in Runs :
        LET w == op_workers[r]
            n == Len(w.packages)
            k == w.dispatched_at_cancel
        IN
        (w.pc = "done" /\ k >= 0 /\ k < n) =>
            /\ Len(w.attempted) <= k + 1
            /\ w.emitted[Len(w.emitted) - 1].progress = 100
            /\ ProgressDelivered(r) =>
                  dialogs[r].progress_bar = 100 /\ dialogs[r].completed = n

C7_Witness ==
    \E r \in Runs :
        LET w == op_workers[r] IN
        /\ w.pc = "done"
        /\ Len(w.packages) = 2 /\ w.dispatched_at_cancel = 1
        /\ Len(w.attempted) = 1
        /\ ProgressDelivered(r)
        /\ dialogs[r].completed = 2

\* The interactive thread handles the queued signal `sig` in this step.
Handles(sig) ==
    /\ queue # <<>>
    /\ Head(queue).sig = sig
    /\ queue' = Tail(queue)

\* C8: whenever the completion event of a batch run is handled, a fresh
\* PackageWorker for the current device is created and becomes self.worker.
C8_ReloadAfterEveryRun ==
    [][Handles("operation_completed") =>
          /\ Len(loaders') = Len(loaders) + 1
          /\ worker' = Len(loaders')
          /\ Last(loaders').pc = "start"
          /\ Last(loaders').device_id = current_device_id]_vars

\* C9: at most one PackageWorker thread and at most one
\* PackageOperationWorker thread is running.
C9_AtMostOneTaskAlive ==
    /\ Cardinality({l \in 1..Len(loaders) : LoaderAlive(l)}) <= 1
    /\ Cardinality({r \in Runs : OpWorkerAlive(r)}) <= 1

LineNames(package_lines) ==
    {package_lines[k] : k \in 1..Len(package_lines)} \ {OtherLine}

\* The loads that ended by delivering an inventory.
SuccessfulLoads ==
    {l \in 1..Len(loaders) :
        /\ loaders[l].pc = "done"
        /\ Last(loaders[l].emitted).sig = "package_loaded"}

Delivered(l) == Last(loaders[l].emitted).packages

\* C11: the inventory delivered by a successful load is sorted ascending by
\* name and holds every name of the list output exactly once, also when a
\* package line occurs more than once in the output.
C11_SortedAndUnique ==
    \A l \in SuccessfulLoads :
        LET pkgs == Delivered(l) IN
        /\ \A j, k \in 1..Len(pkgs) : j < k => pkgs[j].name < pkgs[k].name
        /\ {pkgs[k].name : k \in 1..Len(pkgs)} = LineNames(loaders[l].package_lines)

\* C12: in the inventory delivered by a successful load a record is marked
\* system exactly when its name is in the output of `pm list packages -s`,
\* which lists the system packages the device has installed, and every record
\* is unselected.
C12_SystemMarkAndUnselected ==
    \A l \in SuccessfulLoads :
        LET pkgs == Delivered(l)
            w == loaders[l]
        IN
        \A k \in 1..Len(pkgs) :
            /\ pkgs[k].is_system =
                  (/\ w.system_result = "ok"
                   /\ pkgs[k].name \in SystemNames \cap installed[w.device_id])
            /\ ~pkgs[k].selected

C12_Witness ==
    \E l \in SuccessfulLoads :
        LET pkgs == Delivered(l) IN
        /\ \E k \in 1..Len(pkgs) : pkgs[k].is_system
        /\ \E k \in 1..Len(pkgs) : ~pkgs[k].is_system

\* C13: a load whose `pm list packages -s` failed (non-zero exit, timeout or
\* any other exception) still delivers the full inventory, with no package
\* marked system.
C13_SystemFailureNotFatal ==
    \A l \in 1..Len(loaders) :
        LET w == loaders[l] IN
        (w.pc = "done" /\ w.system_result \in {"nonzero", "raised"}) =>
            /\ l \in SuccessfulLoads
            /\ {Delivered(l)[k].name : k \in 1..Len(Delivered(l))} =
                   LineNames(w.package_lines)
            /\ \A k \in 1..Len(Delivered(l)) : ~Delivered(l)[k].is_system

\* The interactive thread runs on_checkbox_changed in this step.
SingleToggle == checkbox_changed_calls' # checkbox_changed_calls

\* C14: a single toggle sets the record of the row's name to the new state
\* whatever the result of the command is; a toggle of a non-system package
\* into the selected state issues exactly one `pm enable` of that package; a
\* toggle to unselected issues no command.
C14_ToggleSetsAndEnablesOnce ==
    [][SingleToggle =>
          \A row \in 1..Len(package_table) :
              package_table'[row].checked # package_table[row].checked =>
                  LET name == package_table[row].name
                      state == package_table'[row].checked
                  IN
                  /\ package_dict'[name].selected = state
                  /\ (state /\ ~package_dict[name].is_system) =>
                        /\ Len(gui_commands') = Len(gui_commands) + 1
                        /\ Last(gui_commands').cmd = "enable"
                        /\ Last(gui_commands').package = name
                  /\ ~state => gui_commands' = gui_commands]_vars

C14_Witness ==
    /\ \E k \in 1..Len(gui_commands) :
          /\ gui_commands[k].cmd = "enable"
          /\ gui_commands[k].package \notin SystemNames
          /\ gui_commands[k].result.raised
          /\ package_dict[gui_commands[k].package].selected
    /\ checkbox_changed_calls = 1

\* C15: no command is executed on the interactive thread.
C15_NoCommandOnInteractiveThread ==
    \A k \in 1..Len(gui_commands) :
        gui_commands[k].cmd \notin {"devices", "enable"}

\* C16: from the start of a batch update to its end no command is issued and
\* on_checkbox_changed runs for none of the rows, whatever value is set.
C16_BatchIssuesNoCommand ==
    [][(batch_update.pc # "idle" \/ batch_update'.pc # "idle") =>
          /\ gui_commands' = gui_commands
          /\ checkbox_changed_calls' = checkbox_changed_calls]_vars

C16_Witness ==
    /\ batch_update.pc = "rows"
    /\ batch_update.k = Len(batch_update.row_indices)
    /\ batch_update.k >= 2
    /\ batch_update.new_state
    /\ batch_update.before = <<>>
    /\ \A r \in 1..Len(package_table) : package_table[r].checked
    /\ checkbox_changed_calls = 0
    /\ gui_commands = <<DevicesCommand>>

\* Another handler of the interactive thread starts in this step: a queued
\* signal is delivered, a single toggle is handled, or the checked rows are
\* read for a batch operation.
OtherHandlerRuns ==
    \/ queue # <<>> /\ queue' = Tail(queue)
    \/ SingleToggle
    \/ Len(op_workers') > Len(op_workers)

\* C17: no other handler runs while only part of a batch update has been
\* applied, that is after the checkbox of its first row was set and before
\* end_batch_update has returned.
C17_BatchIsAllOrNothing ==
    [][OtherHandlerRuns => batch_update.k = 0 /\ ~is_batch_updating]_vars

C17_Witness ==
    /\ batch_update.pc = "rows"
    /\ batch_update.k = 1
    /\ Len(batch_update.row_indices) = 2
    /\ queue # <<>>
    /\ Head(queue).sig = "package_loaded"

\* A batch update that sets True returns from end_batch_update in this step.
BatchSetCommits ==
    /\ batch_update.pc = "rows"
    /\ batch_update'.pc = "idle"
    /\ batch_update.new_state

\* C18 as stated: after a batch set of the rows of a set S of names to
\* selected, the read of the selected names returns exactly the names of S
\* that are in the inventory.
C18_ReadReturnsExactlyS ==
    [][BatchSetCommits =>
          Range(GetSelectedPackages') =
              BatchNames \cap {packages[k].name : k \in 1..Len(packages)}]_vars

\* C18 as amended: after a batch set of the rows of a set S of names to
\* selected, the read of the selected names returns the names of S, all of
\* which are in the inventory, together with the names that were selected
\* before the batch set.
C18_ReadReturnsSAndEarlier ==
    [][BatchSetCommits =>
          /\ BatchNames \subseteq {packages[k].name : k \in 1..Len(packages)}
          /\ Range(GetSelectedPackages') =
                BatchNames \cup Range(batch_update.before)
          /\ \A n \in BatchNames : package_dict'[n].selected]_vars

C18_Witness ==
    /\ batch_update.pc = "rows"
    /\ batch_update.k = Len(batch_update.row_indices)
    /\ batch_update.new_state
    /\ \E n \in Range(batch_update.before) : n \notin BatchNames
    /\ checkbox_changed_calls >= 1

\* C19 as stated: the names handed to a batch operation are in ascending name
\* order.
C19_HandedInAscendingOrder ==
    \A r \in Runs :
        \A j, k \in 1..Len(op_workers[r].packages) :
            j < k => op_workers[r].packages[j] < op_workers[r].packages[k]

\* C19 as amended: the names handed to a batch operation are the names of the
\* checked rows in the order in which the rows are displayed, top to bottom.
C19_HandedInDisplayOrder ==
    [][Len(op_workers') > Len(op_workers) =>
          LET pkgs == Last(op_workers').packages
              rows == 1..Len(package_table)
          IN
          /\ Len(pkgs) = Cardinality({r \in rows : package_table[r].checked})
          /\ \E f \in [1..Len(pkgs) -> rows] :
                /\ \A j, k \in 1..Len(pkgs) : j < k => f[j] < f[k]
                /\ \A k \in 1..Len(pkgs) :
                      /\ package_table[f[k]].checked
                      /\ package_table[f[k]].name = pkgs[k]]_vars

C19_Witness ==
    \E r \in Runs :
        /\ Len(op_workers[r].packages) = 2
        /\ op_workers[r].packages[1] > op_workers[r].packages[2]
        /\ op_workers[r].packages = GetSelectedPackages

\* C21: in every state reached by loads, load failures, reloads and selection
\* changes the name index agrees with the inventory sequence: it has one
\* entry per record, and each entry maps a name to the record of the sequence
\* that carries that name.
C21_IndexMatchesInventory ==
    /\ Cardinality(DOMAIN package_dict) = Len(packages)
    /\ \A n \in DOMAIN package_dict :
          \E k \in 1..Len(packages) :
              /\ packages[k].name = n
              /\ package_dict[n] = packages[k]

SearchPackagesStep ==
    search_calls'.search_packages = search_calls.search_packages + 1

FindNextStep == search_calls'.find_next = search_calls.find_next + 1

FindPreviousStep == search_calls'.find_previous = search_calls.find_previous + 1

Matches == Range(search_results)

\* C22: a search with a pattern that compiles leaves as match set exactly the
\* positions of the displayed rows whose name the pattern matches, in
\* strictly increasing order.
C22_ResultsAreTheMatchingRows ==
    [][(SearchPackagesStep /\ search_edit'.kind = "valid") =>
          /\ Range(search_results') =
                {row \in 1..Len(package_table') :
                    package_table'[row].name \in search_edit'.matches}
          /\ \A i, j \in 1..Len(search_results') :
                i < j => search_results'[i] < search_results'[j]]_vars

\* A search over a list sorted in descending order found one of its names.
C22_Witness ==
    /\ search_calls.search_packages >= 1
    /\ active_pattern.kind = "valid"
    /\ Len(package_table) >= 2
    /\ package_table[1].name > package_table[2].name
    /\ Len(search_results) = 1
    /\ package_table[search_results[1]].name \in active_pattern.matches

\* C23: Next moves the current position to the smallest match strictly
\* greater than it; if there is none it wraps to the smallest match, unless
\* the current position is at or beyond the largest match, and then the
\* focus and the match set stay as they are.
C23_NextMovesToTheFollowingMatch ==
    [][FindNextStep =>
          /\ search_results' = search_results
          /\ LET greater == {r \in Matches : r > current_row} IN
             IF greater # {}
             THEN current_row' = Smallest(greater)
             ELSE IF current_row >= Largest(Matches)
             THEN current_row' = current_row /\ selected_rows' = selected_rows
             ELSE current_row' = Smallest(Matches)]_vars

\* Next has moved from the first match to the second one.
C23_Witness ==
    /\ search_calls.find_next >= 1
    /\ Len(search_results) >= 2
    /\ current_search_index = 2
    /\ current_row = search_results[2]
    /\ selected_rows = {current_row}

\* C24: Previous moves the current position to the largest match strictly
\* less than it; if there is none it wraps to the largest match, unless the
\* current position is at or before the smallest match, and then the focus
\* and the match set stay as they are.
C24_PreviousMovesToThePrecedingMatch ==
    [][FindPreviousStep =>
          /\ search_results' = search_results
          /\ LET less == {r \in Matches : r < current_row} IN
             IF less # {}
             THEN current_row' = Largest(less)
             ELSE IF current_row <= Smallest(Matches)
             THEN current_row' = current_row /\ selected_rows' = selected_rows
             ELSE current_row' = Largest(Matches)]_vars

\* Previous has moved from a later row back to the first of two matches.
C24_Witness ==
    /\ search_calls.find_previous >= 1
    /\ Len(search_results) >= 2
    /\ current_search_index = 1
    /\ current_row = search_results[1]
    /\ selected_rows = {current_row}

\* C25: with the current position on the last match, Next changes nothing:
\* position, selection, scroll value, match set and index stay, for every
\* non-empty match set.
C25_NextAtLastMatchIsIdle ==
    [][(FindNextStep /\ current_row = Largest(Matches)) =>
          UNCHANGED <<selection_vars, search_results, current_search_index,
                      package_table>>]_vars

\* Next was pressed with the current position on the last of two matches.
C25_Witness ==
    /\ search_calls.find_next >= 1
    /\ Len(search_results) >= 2
    /\ current_row = Largest(Matches)

\* C26: a search whose text is empty or does not compile changes nothing:
\* the match set, the highlights and the current position are as before.
C26_RejectedSearchChangesNothing ==
    [][(SearchPackagesStep /\ search_edit'.kind # "valid") =>
          UNCHANGED <<search_results, current_search_index, package_table,
                      selection_vars>>]_vars

\* A text that does not compile was searched for while an earlier search
\* has its matches highlighted.
C26_Witness ==
    /\ search_edit = MalformedText
    /\ search_calls.search_packages >= 2
    /\ search_results # <<>>
    /\ \A row \in Matches : package_table[row].highlighted

\* C27: the match set is never stale: every position of it is a row of the
\* table whose name matches the pattern it was computed with.
C27_MatchSetNeverStale ==
    \A k \in 1..Len(search_results) :
        /\ search_results[k] \in 1..Len(package_table)
        /\ package_table[search_results[k]].name \in active_pattern.matches

\* The restore_selected_items timers that run in this step.
RestoreTimersRun ==
    {t \in timers \ timers' : t.fn = "restore_selected_items"}

\* The load the timer follows is the reload requested at the completion of a
\* run whose operation satisfies Is.
FollowsRun(t, Is(_)) ==
    \E r \in Runs : Is(op_workers[r].operation) /\ op_workers[r].reload = t.id

IsUninstall(operation) == operation = "uninstall"

SavesSelection(operation) == operation # "uninstall"

SelectedNames(rows, table) == {table[row].name : row \in rows}

CurrentName(row, table) == IF row >= 1 THEN table[row].name ELSE NoFocus

TableNames(table) == [k \in 1..Len(table) |-> table[k].name]

\* C28: the selection saved when an operation was confirmed is applied once,
\* after the reload of that operation, and never again by a later load.
C28_SnapshotAppliedAtMostOnce == snapshot.captured => snapshot.applied <= 1

\* C29: the restore that follows the reload of an uninstall selects no row
\* and sets no current row, whatever operations ran before.
C29_UninstallRestoresNoSelection ==
    [][\A t \in RestoreTimersRun :
          FollowsRun(t, IsUninstall) =>
              UNCHANGED <<selected_rows, current_row>>]_vars

\* C30: the selection saved when an operation was confirmed and restored
\* after its reload, the rows being the same as when the load was requested,
\* gives back the same set of selected names and the same current name.
C30_RestoreGivesBackWhatWasSaved ==
    [][\A t \in RestoreTimersRun :
          (/\ FollowsRun(t, SavesSelection)
           /\ TableNames(package_table) =
                  TableNames(loaders[t.id].before.package_table))
          => /\ SelectedNames(selected_rows', package_table') =
                   Range(saved_selected_packages)
             /\ CurrentName(current_row', package_table') =
                   saved_current_row]_vars

\* The inventory of load l has been delivered and displayed.
ReloadDisplayed(l) ==
    /\ l \in SuccessfulLoads
    /\ \A k \in 1..Len(queue) :
          ~(queue[k].sig = "package_loaded" /\ queue[k].loader = l)

\* C31: after a batch operation the saved view is restored only once the
\* reload of that operation has been delivered and displayed: neither the
\* scroll position nor the selection is restored while the list is still
\* cleared or loading.
C31_RestoredAfterReloadDisplayed ==
    [][\A t \in timers \ timers' :
          IF t.fn = "restore_scroll_position"
          THEN ReloadDisplayed(op_workers[t.id].reload)
          ELSE ReloadDisplayed(t.id)]_vars

\* The terminal events a load has emitted: inventories and errors.
TerminalEvents(l) ==
    {k \in 1..Len(loaders[l].emitted) :
        loaders[l].emitted[k].sig \in {"package_loaded", "error_occurred"}}

EmittedProgress(l, value) ==
    \E k \in 1..Len(loaders[l].emitted) :
        /\ loaders[l].emitted[k].sig = "load_progress"
        /\ loaders[l].emitted[k].value = value

\* C32: every load emits exactly one terminal event, as its last event: the
\* inventory or an error, never both.  A load that emitted an error (the
\* list command exited non-zero, or a command raised, a timeout included)
\* delivers no inventory, and progress 100 is emitted only by a load that
\* delivers an inventory.
C32_OneTerminalEvent ==
    \A l \in 1..Len(loaders) :
        LET w == loaders[l] IN
        /\ Cardinality(TerminalEvents(l)) = IF w.pc = "done" THEN 1 ELSE 0
        /\ TerminalEvents(l) \subseteq {Len(w.emitted)}
        /\ EmittedProgress(l, 100) =>
              /\ w.pc = "done"
              /\ Last(w.emitted).sig = "package_loaded"

\* One load has ended with an error after a non-zero exit, another one has
\* delivered an inventory after progress 100.
C32_Witness ==
    \E l, m \in 1..Len(loaders) :
        /\ loaders[l].pc = "done"
        /\ Last(loaders[l].emitted) = ErrorEvent(l, "CommandError")
        /\ ~EmittedProgress(l, 100)
        /\ m \in SuccessfulLoads
        /\ EmittedProgress(m, 100)

\* C33: for every batch of n targets and every item index i (0 <= i < n),
\* the progress event emitted before item i makes the dialog show exactly i
\* completed items out of n.
C33_DialogShowsItemIndex ==
    [][(Handles("op_progress") /\ Head(queue).current_package # DoneLabel) =>
          LET e == Head(queue)
              w == op_workers[e.run]
          IN  /\ dialogs'[e.run].total_packages = Len(w.packages)
              /\ dialogs'[e.run].completed =
                    IndexOf(w.packages, e.current_package) - 1]_vars

\* C34: after a search that finds a non-empty match set the current row is
\* the first search result, the smallest match position, whatever row was
\* current before the search.
C34_SearchFocusesFirstResult ==
    [][(/\ SearchPackagesStep
        /\ search_edit'.kind = "valid"
        /\ search_results' # <<>>) => current_row' = search_results'[1]]_vars

\* C35: navigation never wraps.  Next moves the current row to a match
\* strictly greater than it or leaves the current row, the selection, the
\* scroll value and the match set as they are; Previous moves it to a match
\* strictly less or leaves them as they are.
C35_NavigationNeverWraps ==
    [][/\ FindNextStep =>
             \/ current_row' \in Matches /\ current_row' > current_row
             \/ UNCHANGED <<selection_vars, search_results>>
       /\ FindPreviousStep =>
             \/ current_row' \in Matches /\ current_row' < current_row
             \/ UNCHANGED <<selection_vars, search_results>>]_vars

\* Previous was pressed with the current row on the first of several
\* matches, where a wrap would have led to the last one.
C35_Witness ==
    /\ search_calls.find_previous >= 1
    /\ Len(search_results) >= 2
    /\ current_row >= 1
    /\ current_row <= Smallest(Matches)

\* C36: whenever the completion event of a batch run is handled,
\* self.operation_worker is set and is the worker of the run that completed.
C36_CompletionReadsItsOwnRun ==
    [][Handles("operation_completed") =>
          /\ operation_worker # 0
          /\ operation_worker = Head(queue).run]_vars

\* C37: an inventory is installed only when it was delivered by a load of the
\* current device, so the displayed inventory belongs to the current device.
C37_InventoryOfCurrentDevice ==
    [][Handles("package_loaded") =>
          loaders[Head(queue).loader].device_id = current_device_id]_vars

\* C38: outside a batch update in progress the checkbox of every row equals
\* the selected flag of the record that package_dict holds for the row's name.
C38_CheckboxesMatchRecords ==
    batch_update.pc = "idle" =>
        \A r \in 1..Len(package_table) :
            /\ package_table[r].name \in DOMAIN package_dict
            /\ package_table[r].checked =
                   package_dict[package_table[r].name].selected

\* C39: when the inventory of a load or reload is installed, no record of it
\* is selected and no row is checked, whatever was selected before; a package
\* that failed in a batch operation is unselected after the reload.
C39_ReloadLeavesNothingSelected ==
    [][Handles("package_loaded") =>
          /\ packages' = Head(queue).packages
          /\ \A k \in 1..Len(packages') : ~packages'[k].selected
          /\ \A n \in DOMAIN package_dict' : ~package_dict'[n].selected
          /\ GetSelectedPackages' = <<>>]_vars

C39_Witness ==
    \E r \in Runs :
        /\ op_workers[r].reload # 0
        /\ ReloadDisplayed(op_workers[r].reload)
        /\ \E n \in Range(FailedByOutcome(op_workers[r])) :
              /\ n \in Range(TableNames(package_table))
              /\ n \in DOMAIN package_dict
              /\ ~package_dict[n].selected

====
